---- MODULE Spec2Model ----
(***************************************************************************)
(* Model of the ePDS auth-service OTP token service                        *)
(* (MagicLinkTokenService: create / verifyCode / cleanup) together with    *)
(* the storage collaborator it drives, and of three parts of the demo      *)
(* application: its rate limiter, the DPoP nonce retry of its OAuth        *)
(* routes, and its signed cookies.                                         *)
(*                                                                         *)
(* Spec runs every call of the token service as one atomic step, which is  *)
(* how the synchronous service executes inside one Node process.  SpecConc *)
(* splits verifyCode at its store calls, so that verifications of the same *)
(* sessionId can interleave their reads and writes (several processes      *)
(* sharing one store); its callers contend for one challenge.  SpecRL runs *)
(* checkRateLimit calls against a clock, SpecFlow one DPoP-protected       *)
(* request against an endpoint that answers as it likes, and SpecCookie    *)
(* the making and reading of the two session cookies, also of values a     *)
(* browser has tampered with.  SpecCallback signs and verifies the         *)
(* callback redirect between the auth service and the PDS, SpecDpop makes  *)
(* DPoP proofs, SpecRoute runs the demo's login and callback handlers from *)
(* request to response, and SpecMail the sending of the OTP e-mail.        *)
(* SpecWire follows the demo's OAuth flows onto the wire (PKCE values,     *)
(* DPoP keys and the requests sent), and SpecVerify runs the auth          *)
(* service's verify-code route on the challenges create has issued.  All   *)
(* specifications start in Init; each moves only its own part of the       *)
(* state.                                                                  *)
(***************************************************************************)
EXTENDS Naturals, Integers, Sequences, FiniteSets, Bags, TLC

(* ------------------------------ bounds --------------------------------- *)

\* number of session ids that create may hand out in one behaviour
MaxSessions == 2

\* number of clock steps the model lets pass after Init
MaxTicks == 1

\* one clock step of the model, in milliseconds: just over the ten minutes a
\* challenge lives, so that a challenge is expired one step after its creation
TickMs == 600001

\* the failure log of the store is SeedGap failures short of the lockout
\* threshold when the model starts
SeedGap == 1

\* number of concurrent verifyCode callers of SpecConc
NumProcs == 2

\* MagicLinkConfig.maxAttemptsPerToken of the modelled deployment
maxAttemptsPerToken == 2

\* the largest limit checkRateLimit is called with
MaxLimit == 2

\* the smallest step of the rate limiter's clock, in milliseconds
RlStepMs == 5000

\* number of times the rate limiter's clock moves in one behaviour
RlMaxTicks == 2

(* ------------------------- program constants --------------------------- *)

OTP_LOCKOUT_THRESHOLD == 15

ONE_HOUR_MS == 60 * 60 * 1000

\* MagicLinkConfig.expiryMinutes, as the service's test sets it
expiryMinutes == 10

\* the clock reading when the model starts: one lockout window after time 0
StartNow == ONE_HOUR_MS

MaxNow == StartNow + MaxTicks * TickMs

(* ------------------------------ inputs --------------------------------- *)

Null == "null"

\* data passed to create by the send-code route
CreateInputs ==
    { [email |-> "Alice@Example.com", authRequestId |-> "req:1",
       clientId |-> "client-1", deviceInfo |-> "test-agent"],
      [email |-> "bob@example.com", authRequestId |-> "req:2",
       clientId |-> Null, deviceInfo |-> Null] }

\* String.prototype.toLowerCase on the e-mail addresses of the model
toLowerCase(s) ==
    IF s = "Alice@Example.com" THEN "alice@example.com" ELSE s

\* the OTP codes a client can submit (8 decimal digits each)
Codes == { <<0, 0, 0, 0, 0, 0, 0, 0>>, <<1, 2, 3, 4, 5, 6, 7, 8>> }

\* the codes the random generator of the model draws
GeneratedCodes == { <<1, 2, 3, 4, 5, 6, 7, 8>> }

Sids == 1 .. MaxSessions

Procs == 1 .. NumProcs

(* ---------------------------- crypto helpers --------------------------- *)

\* hashToken: SHA-256 of the text, modelled as an injective map whose values
\* are not codes: the text behind the tag 2,5,6
hashToken(text) == <<2, 5, 6>> \o text

timingSafeEqual(a, b) == a = b

\* generateOtpCode returns a raw code together with its hash
generateOtpCode == { [code |-> c, codeHash |-> hashToken(c)] : c \in GeneratedCodes }

(* ------------------------------- state ---------------------------------- *)

VARIABLES
    now,        \* Date.now()
    tokens,     \* the OTP challenge rows of the store, keyed by session id
    failures,   \* the per-email OTP failure log of the store (a bag)
    nextId,     \* number of session ids generateCsrfToken has produced
    issued,     \* what create returned to its callers: session id -> raw code
    last,       \* the service call that has just completed (none once the clock
                \* has moved on): its arguments, result and the store before it
    succ,       \* per session id, how many verifyCode calls returned an identity
    observed,   \* per session id, the values incrementTokenAttempts returned
    proc,       \* the in-flight verifyCode calls of SpecConc
    created,    \* per session id, the identity fields create was called with
                \* (the email as create normalizes it)
    cleaned,    \* the sum of the counts cleanup has returned
    rl,         \* the demo's rate limiter: its clock, its bucket map and the
                \* checkRateLimit call that has just completed
    flow,       \* one DPoP-protected request of the demo (the PAR request of
                \* the login route, the token request of the callback route, or
                \* the documented fetchWithDpopRetry): where its handler is,
                \* the HTTP requests sent and the responses received
    jar,        \* the browser's cookies of the demo (OAuth-flow cookie and
                \* user-session cookie), the payloads they were made from and
                \* the cookie call that has just completed
    cb,         \* the cross-service callback between the auth service and the
                \* PDS: the clock (seconds), the redirect URLs signCallback has
                \* signed and the request the verifier has just answered
    proof,      \* the createDpopProof call that has just completed: its
                \* options and the token it returned
    route,      \* the run of a demo route handler (oauth/login or
                \* oauth/callback) that has just completed: its request, what
                \* its collaborators answered and its response
    mail,       \* the OTP e-mails of the auth service: how often the transport
                \* was asked to send, how many failures were logged, and the
                \* run of the sending handler that has just completed
    wire,       \* what the demo's OAuth flows put on the wire: how many flows
                \* were started, per flow the PKCE challenge and DPoP key of
                \* its PAR request, and the requests of the route that has
                \* just run
    page        \* the run of the auth service's verify-code route that has
                \* just completed: its form, what verifyCode returned, its
                \* response and the callback it signed

\* the state of the demo application, which the token service never touches
demoVars == <<rl, flow, jar>>

\* the state of the other services and helpers
auxVars == <<cb, proof, route, mail, wire, page>>

\* the state of the token service and of its store
otpVars == <<now, tokens, failures, nextId, issued, last, succ, observed, proc,
             created, cleaned>>

vars == <<now, tokens, failures, nextId, issued, last, succ, observed, proc,
          created, cleaned, rl, flow, jar, cb, proof, route, mail, wire,
          page>>

(* --------------------------- storage collaborator ----------------------- *)

createMagicLinkToken(T, data) ==
    [s \in (DOMAIN T) \cup {data.tokenHash} |->
        IF s = data.tokenHash
        THEN [email |-> data.email, expiresAt |-> data.expiresAt,
              authRequestId |-> data.authRequestId, clientId |-> data.clientId,
              deviceInfo |-> data.deviceInfo, codeHash |-> data.codeHash,
              attempts |-> 0, used |-> FALSE]
        ELSE T[s]]

getOtpFailureCount(F, email, windowMs, t) ==
    LET recent == { r \in DOMAIN F : r.email = email /\ r.failedAt >= t - windowMs }
    IN  BagCardinality([r \in recent |-> F[r]])

incrementTokenAttempts(T, sid) ==
    IF sid \in DOMAIN T THEN [T EXCEPT ![sid].attempts = @ + 1] ELSE T

markMagicLinkTokenUsed(T, sid) ==
    IF sid \in DOMAIN T THEN [T EXCEPT ![sid].used = TRUE] ELSE T

\* a store that writes every failure twice
recordOtpFailure_twice(F, email, t) ==
    F (+) SetToBag({[email |-> email, failedAt |-> t]})
      (+) SetToBag({[email |-> email, failedAt |-> t]})

recordOtpFailure(F, email, t) ==
    F (+) SetToBag({[email |-> email, failedAt |-> t]})

\* the rows one cleanupExpiredTokens call at time t leaves in the table
cleanupExpiredTokens(T, t) ==
    [s \in { x \in DOMAIN T : ~(T[x].expiresAt < t) } |-> T[s]]

\* the number cleanupExpiredTokens returns: the rows that one call deleted
deletedCount(T, t) ==
    Cardinality(DOMAIN T) - Cardinality(DOMAIN cleanupExpiredTokens(T, t))

(* ------------------------------ the service ----------------------------- *)

NoIdentity == [email |-> Null, authRequestId |-> Null, clientId |-> Null]

NoData == [email |-> Null, authRequestId |-> Null, clientId |-> Null,
           deviceInfo |-> Null]

NoCode == <<>>

NoRow == [email |-> Null, expiresAt |-> 0, authRequestId |-> Null,
          clientId |-> Null, deviceInfo |-> Null, codeHash |-> hashToken(NoCode),
          attempts |-> 0, used |-> FALSE]

\* what one verifyCode call returns and what it leaves in the store; observed
\* holds the value incrementTokenAttempts returned to it, if it was called
Outcome(kind, ret, T, F, obs) ==
    [result |-> kind, ret |-> ret, tokens |-> T, failures |-> F, observed |-> obs]

\* create storing the raw code where the hash belongs
newToken_rawCode(data, otp, sessionId, t) ==
    [tokenHash |-> sessionId,
     email |-> toLowerCase(data.email),
     expiresAt |-> t + expiryMinutes * 60 * 1000,
     authRequestId |-> data.authRequestId,
     clientId |-> data.clientId,
     deviceInfo |-> data.deviceInfo,
     csrfToken |-> sessionId,
     codeHash |-> otp.code]

\* create storing the email as it was typed
newToken_noLowerCase(data, otp, sessionId, t) ==
    [tokenHash |-> sessionId,
     email |-> data.email,
     expiresAt |-> t + expiryMinutes * 60 * 1000,
     authRequestId |-> data.authRequestId,
     clientId |-> data.clientId,
     deviceInfo |-> data.deviceInfo,
     csrfToken |-> sessionId,
     codeHash |-> otp.codeHash]

\* the argument create passes to createMagicLinkToken
newToken(data, otp, sessionId, t) ==
    [tokenHash |-> sessionId,
     email |-> toLowerCase(data.email),
     expiresAt |-> t + expiryMinutes * 60 * 1000,
     authRequestId |-> data.authRequestId,
     clientId |-> data.clientId,
     deviceInfo |-> data.deviceInfo,
     csrfToken |-> sessionId,
     codeHash |-> otp.codeHash]

\* verifyCode without its single-use check
isUsed_never(row) == FALSE

isUsed(row) == row.used

\* verifyCode granting one clock step of grace after expiresAt
isExpired_grace(row, t) == row.expiresAt + TickMs < t

\* verifyCode without its expiry check
isExpired_never(row, t) == FALSE

isExpired(row, t) == row.expiresAt < t

\* a service without the per-email lockout
isLockedOut_never(F, email, t) == FALSE

\* the lockout check with > in place of >=
isLockedOut_strict(F, email, t) ==
    getOtpFailureCount(F, email, ONE_HOUR_MS, t) > OTP_LOCKOUT_THRESHOLD

isLockedOut(F, email, t) ==
    getOtpFailureCount(F, email, ONE_HOUR_MS, t) >= OTP_LOCKOUT_THRESHOLD

\* verifyCode computing the new attempts value from the row it read earlier
attemptsSeen_stale(T1, sessionId, row) == row.attempts + 1

\* the attempts value verifyCode compares: the one incrementTokenAttempts
\* returned (T1 is the store after the increment, row the row read at the start)
attemptsSeen(T1, sessionId, row) == T1[sessionId].attempts

\* the per-token limit check turning away the call that reaches the limit
overLimit_atLimit(attempts) == attempts >= maxAttemptsPerToken

\* the per-token limit check off by one
overLimit_offByOne(attempts) == attempts > maxAttemptsPerToken + 1

overLimit(attempts) == attempts > maxAttemptsPerToken

codeMatches(row, submittedCode) ==
    timingSafeEqual(hashToken(submittedCode), row.codeHash)

\* verifyCode returning the identity without its client
identityOf_noClient(row) ==
    [email |-> row.email, authRequestId |-> row.authRequestId,
     clientId |-> Null]

identityOf(row) ==
    [email |-> row.email, authRequestId |-> row.authRequestId,
     clientId |-> row.clientId]

\* the over-limit branch returning its error without burning the challenge
onTooMany_unmarked(T1, F, sessionId, attempts) ==
    Outcome("TooManyAttempts", NoIdentity, T1, F, <<attempts>>)

\* the three ways verifyCode ends after the increment
onTooMany(T1, F, sessionId, attempts) ==
    Outcome("TooManyAttempts", NoIdentity,
            markMagicLinkTokenUsed(T1, sessionId), F, <<attempts>>)

\* a wrong code that is not counted as an attempt
onMismatch_uncounted(T1, F, row, t, sessionId, attempts) ==
    Outcome("IncorrectCode", NoIdentity,
            [T1 EXCEPT ![sessionId].attempts = row.attempts],
            recordOtpFailure(F, row.email, t), <<attempts>>)

\* a wrong code burning the challenge as the over-limit branch does
onMismatch_burns(T1, F, row, t, sessionId, attempts) ==
    Outcome("IncorrectCode", NoIdentity, markMagicLinkTokenUsed(T1, sessionId),
            recordOtpFailure(F, row.email, t), <<attempts>>)

onMismatch(T1, F, row, t, sessionId, attempts) ==
    Outcome("IncorrectCode", NoIdentity, T1,
            recordOtpFailure(F, row.email, t), <<attempts>>)

onMatch(T1, F, row, sessionId, attempts) ==
    Outcome("Success", identityOf(row),
            markMagicLinkTokenUsed(T1, sessionId), F, <<attempts>>)

\* an unknown session id answered as an expired challenge is
onMissing_expired(T, F) == Outcome("Expired", NoIdentity, T, F, <<>>)

\* how verifyCode ends when getMagicLinkToken finds no row
onMissing(T, F) == Outcome("InvalidOrExpired", NoIdentity, T, F, <<>>)

\* cleanup reporting the number of rows it looked at
cleanup_countsAll(T, t) ==
    [tokens |-> cleanupExpiredTokens(T, t), count |-> Cardinality(DOMAIN T)]

\* cleanup(): one cleanupExpiredTokens call, whose count it returns
cleanup(T, t) ==
    [tokens |-> cleanupExpiredTokens(T, t), count |-> deletedCount(T, t)]

\* verifyCode(sessionId, submittedCode) run as one step on the store (T, F)
\* at time t
verifyCode(T, F, t, sessionId, submittedCode) ==
    IF sessionId \notin DOMAIN T
    THEN onMissing(T, F)
    ELSE
    LET row == T[sessionId] IN
    IF isUsed(row)
    THEN Outcome("AlreadyUsed", NoIdentity, T, F, <<>>)
    ELSE IF isExpired(row, t)
    THEN Outcome("Expired", NoIdentity, T, F, <<>>)
    ELSE IF isLockedOut(F, row.email, t)
    THEN Outcome("Locked", NoIdentity, T, F, <<>>)
    ELSE
    LET T1 == incrementTokenAttempts(T, sessionId)
        attempts == attemptsSeen(T1, sessionId, row)
    IN
    IF overLimit(attempts)
    THEN onTooMany(T1, F, sessionId, attempts)
    ELSE IF ~codeMatches(row, submittedCode)
    THEN onMismatch(T1, F, row, t, sessionId, attempts)
    ELSE onMatch(T1, F, row, sessionId, attempts)

\* the record of a finished call: operation, arguments, result, and the store
\* as it was when the call began
Call(op, sid, code, data, result, ret) ==
    [op |-> op, sid |-> sid, code |-> code, data |-> data, result |-> result,
     ret |-> ret, count |-> 0, preTokens |-> tokens, preFailures |-> failures]

NoCall == [op |-> "none", sid |-> 0, code |-> NoCode, data |-> NoData,
           result |-> "none", ret |-> NoIdentity, count |-> 0,
           preTokens |-> << >>,
           preFailures |-> EmptyBag]

\* a verifyCode caller of SpecConc that is not inside a call
Idle == [pc |-> "idle", sid |-> 0, code |-> NoCode, row |-> NoRow]

(* --------------------- the demo's rate limiter -------------------------- *)

\* the windows the limiter's tests call it with
ShortWindowMs == 10000

LongWindowMs == 30000

Windows == { ShortWindowMs, LongWindowMs }

Limits == 1 .. MaxLimit

\* the keys of the login route: login:<ip>, and login:unknown for a request
\* that carries no address
RlKeys == { "login:10.0.0.1", "login:unknown" }

\* the calls of the model: the first key with every limit and window, the
\* other key with the smallest limit and the short window
CheckInputs ==
    { <<"login:10.0.0.1", l, w>> : l \in Limits, w \in Windows }
        \cup { <<"login:unknown", 1, ShortWindowMs>> }

\* the clock of the limiter moves by the smallest step or by a whole window
RlSteps == { RlStepMs } \cup Windows

Min(a, b) == IF a <= b THEN a ELSE b

\* A bucket holds tokensRemaining and lastRefillAt.  tokensRemaining is a
\* fraction of a token; the model keeps it exactly, counted in windowMs-ths of
\* a token, windowMs being the window the bucket's key is checked with.

\* a new bucket that starts one token short
newBucket_oneShort(limit, windowMs, t) ==
    [tokens |-> (limit - 1) * windowMs, lastRefill |-> t]

\* the bucket of a key seen for the first time: full
newBucket(limit, windowMs, t) ==
    [tokens |-> limit * windowMs, lastRefill |-> t]

\* the lazy refill without the cap at limit
refill_uncapped(bucket, limit, windowMs, t) ==
    bucket.tokens + (t - bucket.lastRefill) * limit

\* the lazy refill: limit tokens per window, in proportion to the time since
\* the last check, never above limit
refill(bucket, limit, windowMs, t) ==
    Min(limit * windowMs, bucket.tokens + (t - bucket.lastRefill) * limit)

\* retryAfter as the time left until the bucket is full again
retryAfterSeconds_remaining(windowMs, elapsed) == (windowMs - elapsed) \div 1000

\* retryAfter: the configured window in seconds, whatever time has elapsed
retryAfterSeconds(windowMs, elapsed) == windowMs \div 1000

\* the bucket map with every known bucket overwritten
putBucket_all(B, key, bucket) == [k \in (DOMAIN B) \cup {key} |-> bucket]

\* the bucket map with the bucket of key replaced
putBucket(B, key, bucket) ==
    [k \in (DOMAIN B) \cup {key} |-> IF k = key THEN bucket ELSE B[k]]

\* checkRateLimit(key, limit, windowMs) at time t on the bucket map B: refill,
\* then take one token if the bucket holds one; retryAfter is 0 when allowed
checkRateLimit(B, key, limit, windowMs, t) ==
    LET bucket == IF key \in DOMAIN B THEN B[key] ELSE newBucket(limit, windowMs, t)
        have == refill(bucket, limit, windowMs, t)
        allowed == have >= windowMs
    IN  [allowed |-> allowed,
         retryAfter |-> IF allowed THEN 0
                        ELSE retryAfterSeconds(windowMs, t - bucket.lastRefill),
         have |-> have,
         buckets |-> putBucket(B, key,
                        [tokens |-> IF allowed THEN have - windowMs ELSE have,
                         lastRefill |-> t])]

NoCheck == [op |-> "none", key |-> Null, limit |-> 0, windowMs |-> 0,
            allowed |-> FALSE, retryAfter |-> 0, have |-> 0, at |-> 0,
            preBuckets |-> << >>]

\* the rate limiter of the demo before its first call: no bucket; calls holds,
\* per key, the limit and window the key is checked with, the time of its
\* first check, the number of its checks and the times of the allowed ones
RlIdle == [now |-> 0, ticks |-> 0, buckets |-> << >>, calls |-> << >>,
           last |-> NoCheck]

(* ------------------ the demo's DPoP nonce retry ------------------------- *)

\* what fetch gives back: a response with its ok flag, its status and whether
\* it carries a dpop-nonce header, or a thrown network error
Statuses == { 200, 400, 401, 429, 500 }

Responses ==
    { [thrown |-> FALSE, ok |-> st = 200, status |-> st, nonce |-> n] :
         st \in Statuses, n \in BOOLEAN }
      \cup { [thrown |-> TRUE, ok |-> FALSE, status |-> 0, nonce |-> FALSE] }

NoResponse == [thrown |-> FALSE, ok |-> FALSE, status |-> 0, nonce |-> FALSE]

FlowKinds == { "login", "callback", "fetchWithDpopRetry" }

\* what each handler returns when it stops without sending again
Failed(kind) ==
    IF kind = "login" THEN "par_failed"
    ELSE IF kind = "callback" THEN "auth_failed" ELSE "returned"

Passed(kind) ==
    IF kind = "login" THEN "redirect_auth"
    ELSE IF kind = "callback" THEN "token_ok" ELSE "returned"

\* the nonce check of the login and callback routes: the header alone
hasNonce(kind, r) ==
    IF kind = "fetchWithDpopRetry" THEN r.nonce /\ r.status = 400 ELSE r.nonce

\* a handler that sends again when its fetch throws
Thrown_retry(kind) == "retry"

\* a thrown fetch ends in the catch block of a route
Thrown(kind) ==
    IF kind = "fetchWithDpopRetry" THEN "thrown" ELSE "auth_failed"

\* a handler that answers a challenge to its retry with another retry
afterRetry_again(kind, r) ==
    IF r.thrown THEN Thrown(kind)
    ELSE IF r.ok THEN Passed(kind)
    ELSE IF hasNonce(kind, r) THEN "retry" ELSE Failed(kind)

\* what the handler does with the response to its second request
afterRetry(kind, r) ==
    IF r.thrown THEN Thrown(kind)
    ELSE IF r.ok THEN Passed(kind) ELSE Failed(kind)

\* what the handler does with the response to its first request: "retry"
\* stands for building a proof with the nonce and sending again
afterFirst(kind, r) ==
    IF r.thrown THEN Thrown(kind)
    ELSE IF r.ok THEN Passed(kind)
    ELSE IF hasNonce(kind, r) THEN "retry" ELSE Failed(kind)

FlowIdle == [kind |-> "none", pc |-> "idle", sent |-> 0, first |-> NoResponse,
             second |-> NoResponse, outcome |-> "none"]

(* --------------------- the demo's signed cookies ------------------------ *)

\* the value of an optional property that is not set
Undefined == "undefined"

OAUTH_COOKIE == "OAUTH_COOKIE"

SESSION_COOKIE == "SESSION_COOKIE"

\* the properties of the two payloads, in the order they are written
OAuthFields == << "state", "codeVerifier", "dpopPrivateJwk", "tokenEndpoint",
                  "email", "expectedDid", "expectedPdsUrl" >>

UserFields == << "userDid", "userHandle", "createdAt" >>

\* the sessionData the login route builds: email, expectedDid and
\* expectedPdsUrl are undefined when the login gave none
OAuthSessions ==
    { [state |-> st, codeVerifier |-> "verifier-1",
       dpopPrivateJwk |-> "{kty:EC,crv:P-256}",
       tokenEndpoint |-> "https://pds.example/oauth/token",
       email |-> e, expectedDid |-> d, expectedPdsUrl |-> u] :
         st \in { "state-1", "state-2" },
         e \in { Undefined, "alice@example.com" },
         d \in { Undefined, "did:plc:abc123" },
         u \in { Undefined, "https://pds.example" } }

\* the user session the callback route builds; the handle falls back to the DID
UserSessions ==
    { [userDid |-> "did:plc:abc123", userHandle |-> h, createdAt |-> "1700000000000"] :
         h \in { "did:plc:abc123", "alice.bsky.social" } }

\* reading a property of an object: undefined when the object has none
Read(obj, f) == IF f \in DOMAIN obj THEN obj[f] ELSE Undefined

\* the one signing secret of the demo, used for both cookies
SESSION_SECRET == "SESSION_SECRET"

\* a secret the demo does not hold
OtherSecret == "other-secret"

\* a serialization that leaves out the last property
serialize_short(payload, fields) ==
    SelectSeq([i \in 1 .. (Len(fields) - 1) |-> << fields[i], Read(payload, fields[i]) >>],
              LAMBDA kv : kv[2] # Undefined)

\* JSON.stringify of a payload: its properties in order, those that are
\* undefined left out
serialize(payload, fields) ==
    SelectSeq([i \in 1 .. Len(fields) |-> << fields[i], Read(payload, fields[i]) >>],
              LAMBDA kv : kv[2] # Undefined)

\* JSON.parse of a serialization: an object with the properties written
parse(serialized) ==
    [f \in { serialized[i][1] : i \in DOMAIN serialized } |->
        serialized[CHOOSE i \in DOMAIN serialized : serialized[i][1] = f][2]]

base64url(serialized) == << "base64url", serialized >>

\* the text behind a base64url part
fromBase64url(part) == part[2]

\* HMAC-SHA256(secret, serialized)
hmacSha256(secret, serialized) == [key |-> secret, message |-> serialized]

\* encode(payload, secret): the serialized payload and its HMAC, as two parts
encode(payload, fields, secret) ==
    << base64url(serialize(payload, fields)),
       hmacSha256(secret, serialize(payload, fields)) >>

\* what decode returns for a value it does not accept
NullSession == [null |-> TRUE]

\* a cookie that is not set
NoCookie == << >>

\* the part is base64url text
isBase64url(part) == part[1] = "base64url"

\* a decode that parses whatever has two parts
decode_unchecked(value, secret) ==
    IF Len(value) # 2 THEN NullSession
    ELSE IF ~isBase64url(value[1]) THEN NullSession
    ELSE parse(fromBase64url(value[1]))

\* decode(value, secret): null unless the value has two parts, the first
\* decodes, and the second is the HMAC of the first under secret
decode(value, secret) ==
    IF Len(value) # 2 THEN NullSession
    ELSE IF ~isBase64url(value[1]) THEN NullSession
    ELSE IF ~timingSafeEqual(hmacSha256(secret, fromBase64url(value[1])), value[2])
    THEN NullSession
    ELSE parse(fromBase64url(value[1]))

createOAuthSessionCookie(data) ==
    [name |-> OAUTH_COOKIE, value |-> encode(data, OAuthFields, SESSION_SECRET)]

getOAuthSessionFromCookie(cookieStore) ==
    decode(cookieStore[OAUTH_COOKIE], SESSION_SECRET)

createUserSessionCookie(data) ==
    [name |-> SESSION_COOKIE, value |-> encode(data, UserFields, SESSION_SECRET)]

getUserSessionFromCookie(cookieStore) ==
    decode(cookieStore[SESSION_COOKIE], SESSION_SECRET)

CookieNames == { OAUTH_COOKIE, SESSION_COOKIE }

\* the values each create function can return
OAuthValues == { createOAuthSessionCookie(d).value : d \in OAuthSessions }

UserValues == { createUserSessionCookie(d).value : d \in UserSessions }

\* what a tampering client can make of a value: its signature replaced, its
\* payload replaced, a part dropped, a part added, its first part garbled
BadSignature == hmacSha256(OtherSecret, << >>)

Tampered(value) ==
    { << value[1], BadSignature >>,
      << base64url(<< << "state", "forged" >> >>), value[2] >>,
      << value[1] >>,
      << value[1], value[2], value[2] >>,
      << << "garbage", << >> >>, value[2] >> }

\* values signed with a secret the demo does not hold
Forged ==
    { encode(d, OAuthFields, OtherSecret) : d \in OAuthSessions }
      \cup { encode(d, UserFields, OtherSecret) : d \in UserSessions }

\* sample values the tampering starts from
SampleValues ==
    { (CHOOSE v \in OAuthValues : TRUE), (CHOOSE v \in UserValues : TRUE) }

\* everything a browser may present as the value of a cookie
PresentedValues ==
    OAuthValues \cup UserValues \cup Forged
      \cup UNION { Tampered(v) : v \in SampleValues }

NoCookieCall == [op |-> "none", result |-> NullSession]

\* no cookie is set; made holds, per cookie name, the payload the cookie now
\* set was made from
JarEmpty == [cookies |-> [n \in CookieNames |-> NoCookie],
             made |-> [n \in CookieNames |-> NullSession],
             last |-> NoCookieCall]

(* ------------------- the cross-service callback ------------------------- *)

\* how many redirect URLs the auth service signs, how often the clock moves
MaxCallbacks == 2

CbMaxTicks == 3

\* the clock moves by half the replay window
CbStepSeconds == 150

\* the replay window of the verifier
CALLBACK_TTL_SECONDS == 300

\* the secret the auth service and the PDS share
magicCallbackSecret == "EPDS_CALLBACK_SECRET"

\* the callbackParams the verify-code router builds
CallbackParams ==
    { [request_uri |-> "urn:ietf:params:oauth:request_uri:req-1",
       email |-> "alice@example.com", approved |-> "1", new_account |-> n] :
         n \in { "0", "1" } }

\* the data the signature covers: the parameters in a fixed order
canonical(params) ==
    << params.request_uri, params.email, params.approved, params.new_account >>

\* signCallback(params, secret) at time t: the timestamp and the HMAC of the
\* parameters and the timestamp
signCallback(params, secret, t) ==
    [sig |-> hmacSha256(secret, Append(canonical(params), t)), ts |-> t]

\* a verifier that checks the signature only
verifyCallback_noTtl(params, ts, sig, secret, t) ==
    timingSafeEqual(hmacSha256(secret, Append(canonical(params), ts)), sig)

\* verifyCallback(params, ts, sig, secret) at time t: the signature is the one
\* of the parameters and the timestamp, and the timestamp is not older than
\* the replay window (nor later than the clock)
verifyCallback(params, ts, sig, secret, t) ==
    /\ timingSafeEqual(hmacSha256(secret, Append(canonical(params), ts)), sig)
    /\ ts <= t
    /\ t - ts <= CALLBACK_TTL_SECONDS

NoCallback == [params |-> << >>, ts |-> 0, sig |-> << >>]

CbIdle == [now |-> 0, ticks |-> 0, signed |-> {},
           last |-> [request |-> NoCallback, accepted |-> FALSE, asked |-> FALSE]]

(* --------------------------- DPoP proofs -------------------------------- *)

\* the key pairs generateDpopKeyPair may return
KeyPairs ==
    { [privateKey |-> "private-key-1",
       publicJwk |-> [kty |-> "EC", crv |-> "P-256", x |-> "x-1", y |-> "y-1"]],
      [privateKey |-> "private-key-2",
       publicJwk |-> [kty |-> "EC", crv |-> "P-256", x |-> "x-2", y |-> "y-2"]] }

\* the options of createDpopProof: nonce and accessToken may be left out, and
\* being strings they may be empty
DpopOptions ==
    { [privateKey |-> kp.privateKey, jwk |-> kp.publicJwk, method |-> m,
       url |-> u, nonce |-> n, accessToken |-> a] :
         kp \in KeyPairs,
         m \in { "POST", "GET" },
         u \in { "https://example.com/token", "https://example.com/resource" },
         n \in { Undefined, "", "server-nonce-123" },
         a \in { Undefined, "", "my-access-token" } }

\* crypto.randomUUID()
RandomUUIDs == { "uuid-1", "uuid-2" }

\* Math.floor(Date.now() / 1000)
IssuedAt == 1700000000

\* a test that takes every string for true, the empty one too
truthy_defined(x) == x # Undefined

\* what `if (x)` takes for true of an optional string
truthy(x) == x # Undefined /\ x # ""

\* crypto.createHash('sha256').update(text).digest('base64url')
sha256Base64url(text) == << "sha256", text >>

\* crypto.sign('sha256', signingInput, privateKey), as raw r||s in base64url
signEs256(signingInput, privateKey) ==
    base64url([key |-> privateKey, input |-> signingInput])

\* the payload object: jti, htm, htu, iat, then nonce and ath as they are set
dpopPayload(opts, jti) ==
    << << "jti", jti >>, << "htm", opts.method >>, << "htu", opts.url >>,
       << "iat", IssuedAt >> >>
      \o (IF truthy(opts.nonce) THEN << << "nonce", opts.nonce >> >> ELSE << >>)
      \o (IF truthy(opts.accessToken)
          THEN << << "ath", sha256Base64url(opts.accessToken) >> >> ELSE << >>)

dpopHeader(opts) ==
    << << "alg", "ES256" >>, << "typ", "dpop+jwt" >>, << "jwk", opts.jwk >> >>

\* createDpopProof(opts): header, payload and signature, the parts joined by
\* dots
createDpopProof(opts, jti) ==
    LET headerB64 == base64url(dpopHeader(opts))
        payloadB64 == base64url(dpopPayload(opts, jti))
    IN  << headerB64, payloadB64,
           signEs256(<< headerB64, payloadB64 >>, opts.privateKey) >>

\* decodePart of the tests: the JSON of part index of a token
decodePart(jwt, index) == parse(fromBase64url(jwt[index]))

NoProof == [called |-> FALSE, opts |-> << >>, token |-> << >>]

(* ------------------ the demo's login and callback routes ---------------- *)

\* RATE_LIMIT_LOGIN comes from the environment; the model takes a small one
RATE_LIMIT_LOGIN == 2

RATE_LIMIT_WINDOW_MS == 60000

\* String(n) of a natural number: its decimal digits
RECURSIVE String(_)
String(n) == IF n < 10 THEN << n >> ELSE Append(String(n \div 10), n % 10)

\* a header that is not set
NoHeader == << >>

\* x-real-ip of the request (Null when the request has neither that header
\* nor x-forwarded-for); the requests of the model come from one address
Ips == { "10.0.0.1" }

loginKey(ip) == IF ip = Null THEN "login:unknown" ELSE "login:10.0.0.1"

validateEmail(email) == email = "alice@example.com"

validateHandle(handle) == handle = "alice.bsky.social"

\* the query of a login request, "" for a parameter that is absent
LoginRequests ==
    { [ip |-> ip, email |-> e, handle |-> h] :
         ip \in Ips,
         e \in { "", "alice@example.com", "userexample.com" },
         h \in { "", "alice.bsky.social" } }

\* generateState(), and the states a callback request may carry
States == { "state-1" }

QueryStates == { "state-1", "state-2", "" }

\* what the PAR and token endpoints answer in the model of the routes
RouteResponses ==
    { r \in Responses :
         \/ r.thrown
         \/ r.status \in { 200, 500 } /\ ~r.nonce
         \/ r.status = 400 /\ r.nonce }

\* the responses of NextResponse
TooManyRequests(retryAfter) ==
    [status |-> 429, location |-> "", retryAfter |-> String(retryAfter)]

Redirect(location) == [status |-> 307, location |-> location, retryAfter |-> NoHeader]

\* where a route goes for what its DPoP-protected request came to
LocationOf(outcome) ==
    IF outcome = "par_failed" THEN "/?error=par_failed"
    ELSE IF outcome = "auth_failed" THEN "/?error=auth_failed"
    ELSE IF outcome = "redirect_auth" THEN "authUrl"
    ELSE "/welcome"

\* the sessionData of the login route
sessionData(email, handle, state) ==
    [state |-> state, codeVerifier |-> "verifier-1",
     dpopPrivateJwk |-> "{kty:EC,crv:P-256}",
     tokenEndpoint |-> "https://pds.example/oauth/token",
     email |-> IF email = "" THEN Undefined ELSE email,
     expectedDid |-> IF handle = "" THEN Undefined ELSE "did:plc:abc123",
     expectedPdsUrl |-> IF handle = "" THEN Undefined ELSE "https://pds.example"]

\* a DPoP-protected request with its one retry: the requests sent, the
\* responses that were read and what the exchange came to
exchange(kind, r1, r2) ==
    IF afterFirst(kind, r1) = "retry"
    THEN [sent |-> 2, first |-> r1, second |-> r2, outcome |-> afterRetry(kind, r2)]
    ELSE [sent |-> 1, first |-> r1, second |-> NoResponse,
          outcome |-> afterFirst(kind, r1)]

NoExchange == [sent |-> 0, first |-> NoResponse, second |-> NoResponse,
               outcome |-> "none"]

\* the exchanges of the two routes
ParExchanges ==
    { exchange("login", r1, r2) : r1 \in RouteResponses, r2 \in RouteResponses }

TokenExchanges ==
    { exchange("callback", r1, r2) : r1 \in RouteResponses, r2 \in RouteResponses }

\* a login route that lets every request through
denied_never(check) == FALSE

\* `!rl.allowed`
denied(check) == ~check.allowed

\* the login request gets as far as resolving its handle, as far as its PAR
\* request
resolvesHandle(req, check) ==
    /\ ~denied(check)
    /\ req.email = "" \/ validateEmail(req.email)
    /\ req.handle # "" /\ validateHandle(req.handle)

sendsPar(req, check, resolves) ==
    /\ ~denied(check)
    /\ req.email = "" \/ validateEmail(req.email)
    /\ req.handle = "" \/ (validateHandle(req.handle) /\ resolves)

\* a login route that sets the cookie as soon as it has made it, whatever
\* the PAR endpoint answered
setsOAuthCookie_made(outcome) == TRUE

\* the login route sets the OAuth session cookie on the two responses that
\* redirect to the authorization endpoint, and on no other
setsOAuthCookie(outcome) == outcome = "redirect_auth"

\* GET oauth/login: the response, the PAR exchange and the cookie to set
\* (NoCookie for none), given what checkRateLimit returned (check), whether
\* the handle resolves and what the PAR endpoint answers
loginRouteOf(req, check, data, resolves, par) ==
    IF denied(check)
    THEN [response |-> TooManyRequests(check.retryAfter), par |-> NoExchange,
          cookie |-> NoCookie, data |-> NullSession]
    ELSE IF req.email # "" /\ ~validateEmail(req.email)
    THEN [response |-> Redirect("/?error=invalid_email"), par |-> NoExchange,
          cookie |-> NoCookie, data |-> NullSession]
    ELSE IF req.handle # "" /\ ~validateHandle(req.handle)
    THEN [response |-> Redirect("/?error=invalid_handle"), par |-> NoExchange,
          cookie |-> NoCookie, data |-> NullSession]
    ELSE IF req.handle # "" /\ ~resolves
    THEN [response |-> Redirect("/?error=auth_failed"), par |-> NoExchange,
          cookie |-> NoCookie, data |-> NullSession]
    ELSE LET set == setsOAuthCookie(par.outcome)
         IN  [response |-> Redirect(LocationOf(par.outcome)), par |-> par,
              cookie |-> IF set THEN createOAuthSessionCookie(data).value
                         ELSE NoCookie,
              data |-> IF set THEN data ELSE NullSession]

\* the login route with the sessionData of the route model
loginRoute(req, check, state, resolves, par) ==
    loginRouteOf(req, check, sessionData(req.email, req.handle, state), resolves, par)

\* the query of a callback request, "" for a parameter that is absent
CallbackRequests ==
    { [code |-> c, state |-> st, error |-> e] :
         c \in { "", "code-1" }, st \in QueryStates,
         e \in { "", "access_denied" } }

\* tokenData.sub of the token response
Subs == { "did:plc:abc123", "did:plc:evil", "" }

\* resolveDidToPds(sub): the DID's PDS is the one of the token endpoint, is
\* another one, or cannot be resolved
DidPds == { "match", "mismatch", "throws" }

\* the PLC directory names a handle, or cannot be reached
Plc == { "handle", "throws" }

\* what the token endpoint and the directories answer to one callback: the
\* directories are asked only after a token was issued
TokenAnswers ==
    { a \in [token : { y \in TokenExchanges : y.outcome = "token_ok" },
             sub : Subs, didPds : DidPds, plc : Plc] :
         a.sub = "" => a.didPds = "throws" }
      \cup { [token |-> x, sub |-> "", didPds |-> "throws", plc |-> "throws"] :
                x \in { y \in TokenExchanges : y.outcome # "token_ok" } }

NoAnswer == [token |-> NoExchange, sub |-> "", didPds |-> "throws", plc |-> "throws"]

\* a callback route that takes any state
stateMatches_any(stateData, state) == TRUE

\* `stateData.state !== state` is false
stateMatches(stateData, state) == Read(stateData, "state") = state

\* the two DID checks: sub is the expected DID when one is expected, else the
\* PDS of a sub that is not empty is the one of the token endpoint
didChecksPass(stateData, sub, didPds) ==
    IF truthy(Read(stateData, "expectedDid"))
    THEN sub = Read(stateData, "expectedDid")
    ELSE sub # "" => didPds = "match"

\* the user session of the callback route: the handle falls back to the DID
userSession(sub, plc) ==
    [userDid |-> sub,
     userHandle |-> IF plc = "handle" THEN "alice.bsky.social" ELSE sub,
     createdAt |-> "1700000000000"]

\* the callback request gets as far as its token request
sendsToken(req, cookieStore) ==
    /\ req.error = "" /\ req.code # "" /\ req.state # ""
    /\ getOAuthSessionFromCookie(cookieStore) # NullSession
    /\ stateMatches(getOAuthSessionFromCookie(cookieStore), req.state)

\* GET oauth/callback: the response, the token exchange and the user cookie
\* to set (NoCookie for none), given the cookies of the request, what the
\* token endpoint answers, the sub of the token, and what the DID and the
\* PLC directory resolve to
callbackRoute(req, cookieStore, token, sub, didPds, plc) ==
    LET failed == [response |-> Redirect("/?error=auth_failed"),
                   token |-> NoExchange, cookie |-> NoCookie, data |-> NullSession]
        stateData == getOAuthSessionFromCookie(cookieStore)
    IN  IF req.error # "" THEN failed
        ELSE IF req.code = "" \/ req.state = "" THEN failed
        ELSE IF stateData = NullSession THEN failed
        ELSE IF ~stateMatches(stateData, req.state) THEN failed
        ELSE IF token.outcome # "token_ok" THEN [failed EXCEPT !.token = token]
        ELSE IF ~didChecksPass(stateData, sub, didPds)
        THEN [failed EXCEPT !.token = token]
        ELSE [response |-> Redirect("/welcome"), token |-> token,
              cookie |-> createUserSessionCookie(userSession(sub, plc)).value,
              data |-> userSession(sub, plc)]

NoRun == [handler |-> "none"]

(* ---------------------- sending the OTP e-mail -------------------------- *)

\* how many e-mails better-auth has sent in the model
MaxMails == 2

\* the body of a POST /auth/send-code, "" for a field that is absent
SendCodeRequests ==
    { [email |-> e, request_uri |-> u, client_id |-> c] :
         e \in { "", "Alice@Example.com", "not-an-email" },
         u \in { "", "req:1" },
         c \in { "", "client-1" } }

\* the address pattern of the send-code route
isEmailAddress(email) == email = "alice@example.com"

\* the pages of the send-code route: status, the session id of the OTP form
\* (0 for the empty one) and the error shown
Page(status, sessionId, error) ==
    [status |-> status, sessionId |-> sessionId, error |-> error]

\* the page after tokenService.create returned sessionId and sendOtpCode
\* settled: the route awaits the send inside its try block
afterSend(sessionId, delivered) ==
    IF delivered THEN Page(200, sessionId, "")
    ELSE Page(500, 0, "Failed to send code. Please try again.")

\* the data the send-code route passes to create
createData(req) ==
    [email |-> toLowerCase(req.email), authRequestId |-> req.request_uri,
     clientId |-> IF req.client_id = "" THEN Null ELSE req.client_id,
     deviceInfo |-> "test-agent"]

\* the send-code request passes the field checks and reaches
\* rateLimiter.check
checksLimit(req) ==
    /\ req.email # "" /\ req.request_uri # ""
    /\ isEmailAddress(toLowerCase(req.email))

\* a send-code route that creates the challenge whatever the limiter answers
issuesCode_unlimited(req, limited) == checksLimit(req)

\* the send-code request gets as far as creating a challenge
issuesCode(req, limited) == checksLimit(req) /\ ~limited

NoMail == [sends |-> 0, logged |-> 0, recorded |-> 0,
           last |-> [handler |-> "none"]]

(* ------------------ the OAuth flow on the wire (demo) ------------------- *)

\* how many login flows get as far as their PAR request
MaxFlows == 2

\* generateCodeVerifier(), generateState() and generateDpopKeyPair() draw
\* from crypto's random source: the n-th flow gets values no other flow has
generateCodeVerifier(n) == "verifier-" \o ToString(n)

generateState(n) == "state-" \o ToString(n)

generateDpopKeyPair(n) ==
    [privateKey |-> "private-key-" \o ToString(n),
     publicJwk |-> [kty |-> "EC", crv |-> "P-256",
                    x |-> "x-" \o ToString(n), y |-> "y-" \o ToString(n)],
     privateJwk |-> "{kty:EC,crv:P-256,d:d-" \o ToString(n) \o "}"]

\* sha256 of the verifier, base64url
generateCodeChallenge(verifier) == sha256Base64url(verifier)

\* a callback route that signs with one key pair of its own, whatever the
\* cookie holds
restoreDpopKeyPair_own(privateJwk) ==
    [privateKey |-> generateDpopKeyPair(1).privateKey,
     publicJwk |-> generateDpopKeyPair(1).publicJwk]

\* restoreDpopKeyPair(privateJwk): the private key of the JWK and the public
\* JWK derived from it
restoreDpopKeyPair(privateJwk) ==
    LET kp == CHOOSE k \in { generateDpopKeyPair(n) : n \in 1 .. (MaxFlows + 1) } :
                 k.privateJwk = privateJwk
    IN  [privateKey |-> kp.privateKey, publicJwk |-> kp.publicJwk]

\* crypto.verify of a proof's signature under a public JWK
verifyEs256(jwt, publicJwk) ==
    \E n \in 1 .. (MaxFlows + 1) :
       /\ generateDpopKeyPair(n).publicJwk = publicJwk
       /\ jwt[3] = signEs256(<< jwt[1], jwt[2] >>, generateDpopKeyPair(n).privateKey)

PAR_ENDPOINT == "https://pds.example/oauth/par"

TOKEN_ENDPOINT == "https://pds.example/oauth/token"

\* the form bodies of the two requests
parBody(state, codeChallenge) ==
    [client_id |-> "https://demo.example/client-metadata.json",
     redirect_uri |-> "https://demo.example/api/oauth/callback",
     response_type |-> "code", scope |-> "atproto transition:generic",
     state |-> state, code_challenge |-> codeChallenge,
     code_challenge_method |-> "S256"]

tokenBody(code, codeVerifier) ==
    [grant_type |-> "authorization_code", code |-> code,
     redirect_uri |-> "https://demo.example/api/oauth/callback",
     client_id |-> "https://demo.example/client-metadata.json",
     code_verifier |-> codeVerifier]

\* the options the routes pass to createDpopProof
proofOptions(kp, url, nonce) ==
    [privateKey |-> kp.privateKey, jwk |-> kp.publicJwk, method |-> "POST",
     url |-> url, nonce |-> nonce, accessToken |-> Undefined]

\* fetch(url, { method: 'POST', headers: { DPoP }, body })
dpopFetch(url, dpop, body) ==
    [method |-> "POST", url |-> url, dpop |-> dpop, body |-> body]

\* the dpop-nonce header values of the model
NonceValues == { "nonce-a", "nonce-b" }

\* a route that answers the nonce challenge by sending its first request again
requestsOf_resent(ex, kp, url, body, dpopNonce, jtis) ==
    LET first == dpopFetch(url, createDpopProof(proofOptions(kp, url, Undefined), jtis[1]),
                         body)
    IN  IF ex.sent = 0 THEN << >>
        ELSE IF ex.sent = 1 THEN << first >>
        ELSE << first, first >>

\* the requests a route sends in the exchange ex: the first with a proof that
\* has no nonce, the retry with a proof made from the same key pair, method
\* and url and the dpop-nonce header of the first response, both with the
\* same body; jtis are the two values of crypto.randomUUID()
requestsOf(ex, kp, url, body, dpopNonce, jtis) ==
    LET first == dpopFetch(url, createDpopProof(proofOptions(kp, url, Undefined), jtis[1]),
                         body)
        second == dpopFetch(url, createDpopProof(proofOptions(kp, url, dpopNonce), jtis[2]),
                          body)
    IN  IF ex.sent = 0 THEN << >>
        ELSE IF ex.sent = 1 THEN << first >>
        ELSE << first, second >>

\* the sessionData of the n-th flow of the login route
flowSessionData(email, handle, n) ==
    [sessionData(email, handle, generateState(n)) EXCEPT
        !.codeVerifier = generateCodeVerifier(n),
        !.dpopPrivateJwk = generateDpopKeyPair(n).privateJwk]

\* the PAR requests of the n-th flow
parRequests(ex, n, dpopNonce, jtis) ==
    requestsOf(ex, generateDpopKeyPair(n), PAR_ENDPOINT,
               parBody(generateState(n),
                       generateCodeChallenge(generateCodeVerifier(n))),
               dpopNonce, jtis)

\* `stateData.tokenEndpoint || TOKEN_ENDPOINT`
tokenUrl(stateData) ==
    IF truthy(Read(stateData, "tokenEndpoint")) THEN stateData.tokenEndpoint
    ELSE TOKEN_ENDPOINT

\* the token requests of the callback route: verifier, key pair and endpoint
\* come from the OAuth session cookie
tokenRequests(req, cookieStore, ex, dpopNonce, jtis) ==
    IF ~sendsToken(req, cookieStore) THEN << >>
    ELSE LET stateData == getOAuthSessionFromCookie(cookieStore)
         IN  requestsOf(ex, restoreDpopKeyPair(stateData.dpopPrivateJwk),
                        tokenUrl(stateData),
                        tokenBody(req.code, stateData.codeVerifier),
                        dpopNonce, jtis)

\* the values the environment draws for an exchange of that many requests
NoncesFor(sent) == IF sent = 2 THEN NonceValues ELSE { NoHeader }

JtisFor(sent) ==
    IF sent = 0 THEN { << "uuid-1", "uuid-1" >> }
    ELSE IF sent = 1 THEN { << j, "uuid-1" >> : j \in RandomUUIDs }
    ELSE RandomUUIDs \X RandomUUIDs

\* the login requests and the answers to a callback of the wire model
WireLogins == { r \in LoginRequests : r.handle = "" }

WireCallbacks == { r \in CallbackRequests : r.error = "" }

WireAnswers ==
    { a \in TokenAnswers :
         a.token.outcome = "token_ok" =>
            a.sub = "did:plc:abc123" /\ a.plc = "handle" /\ a.didPds # "throws" }

(* ------------------- the verify-code route (auth service) --------------- *)

\* the body of a POST /auth/verify-code, "" for a field that is absent; the
\* hidden fields are the client's to set, and here they name another request
\* and another address than any challenge
VerifyForms ==
    { [session_id |-> sid, code |-> c, request_uri |-> "req:form",
       client_id |-> cl, email |-> "mallory@example.com"] :
         sid \in Sids, c \in Codes, cl \in { "", "client-1" } }
      \cup { [session_id |-> 1, code |-> c, request_uri |-> "",
              client_id |-> "client-1", email |-> "mallory@example.com"] :
                c \in GeneratedCodes }

\* `!sessionId || !code || !requestUri || !email`
missingFields(form) ==
    form.session_id = 0 \/ form.code = NoCode \/ form.request_uri = "" \/ form.email = ""

\* `!isNewAccount && clientId && !ctx.db.hasClientLogin(result.email, clientId)`
needsConsent(form, isNewAccount, hasClientLogin) ==
    ~isNewAccount /\ form.client_id # "" /\ ~hasClientLogin

\* a route that signs the hidden fields of the form
callbackParams_form(form, identity, isNewAccount) ==
    [request_uri |-> form.request_uri, email |-> form.email, approved |-> "1",
     new_account |-> IF isNewAccount THEN "1" ELSE "0"]

\* the callbackParams of the route: the identity verifyCode returned
callbackParams(form, identity, isNewAccount) ==
    [request_uri |-> identity.authRequestId, email |-> identity.email,
     approved |-> "1", new_account |-> IF isNewAccount THEN "1" ELSE "0"]

\* the response of the route once verifyCode has returned, at time t
\* (seconds), and the callback it signed (NoCallback for none)
verifyCodeResponse(form, out, isNewAccount, hasClientLogin, t) ==
    IF out.result # "Success"
    THEN [status |-> 200, kind |-> "otp-form", error |-> out.result,
          request_uri |-> form.request_uri, email |-> form.email,
          callback |-> NoCallback]
    ELSE IF needsConsent(form, isNewAccount, hasClientLogin)
    THEN [status |-> 303, kind |-> "consent", error |-> "",
          request_uri |-> out.ret.authRequestId, email |-> out.ret.email,
          callback |-> NoCallback]
    ELSE LET params == callbackParams(form, out.ret, isNewAccount)
             signed == signCallback(params, magicCallbackSecret, t)
         IN  [status |-> 303, kind |-> "magic-callback", error |-> "",
              request_uri |-> params.request_uri, email |-> params.email,
              callback |-> [params |-> params, ts |-> signed.ts, sig |-> signed.sig]]

NoWire == [flows |-> 0, par |-> << >>, last |-> [handler |-> "none"]]

NoPage == [handler |-> "none"]

\* the failure log the store holds when the service is constructed:
\* OTP_LOCKOUT_THRESHOLD - SeedGap failures of alice@example.com, recorded at
\* time 0 against challenges that have since expired and been cleaned up.
\* They are inside the lockout window at StartNow and outside it one clock
\* step later; bob@example.com starts with no failure
SeedLogs ==
    { [r \in {[email |-> "alice@example.com", failedAt |-> 0]} |->
          OTP_LOCKOUT_THRESHOLD - SeedGap] }

Init ==
    /\ now = StartNow
    /\ tokens = << >>
    /\ failures \in SeedLogs
    /\ nextId = 0
    /\ issued = << >>
    /\ last = NoCall
    /\ succ = [s \in Sids |-> 0]
    /\ observed = [s \in Sids |-> << >>]
    /\ proc = [p \in Procs |-> Idle]
    /\ created = << >>
    /\ cleaned = 0
    /\ rl = RlIdle
    /\ flow = FlowIdle
    /\ jar = JarEmpty
    /\ cb = CbIdle
    /\ proof = NoProof
    /\ route = NoRun
    /\ mail = NoMail
    /\ wire = NoWire
    /\ page = NoPage

\* create(data): a fresh session id, a random code, one new row; the raw code
\* and the session id go back to the caller
Create(data, otp) ==
    /\ nextId < MaxSessions
    /\ LET sessionId == nextId + 1 IN
           /\ tokens' = createMagicLinkToken(tokens,
                                             newToken(data, otp, sessionId, now))
           /\ issued' = [s \in (DOMAIN issued) \cup {sessionId} |->
                            IF s = sessionId THEN otp.code ELSE issued[s]]
           /\ nextId' = sessionId
           /\ created' = [s \in (DOMAIN created) \cup {sessionId} |->
                             IF s = sessionId
                             THEN [email |-> toLowerCase(data.email),
                                   authRequestId |-> data.authRequestId,
                                   clientId |-> data.clientId]
                             ELSE created[s]]
           /\ last' = Call("create", sessionId, otp.code, data, "created", NoIdentity)
    /\ UNCHANGED <<now, failures, succ, observed, proc, cleaned, demoVars, auxVars>>

\* verifyCode as the single-threaded service runs it: one atomic step
VerifyCode(sessionId, submittedCode) ==
    LET out == verifyCode(tokens, failures, now, sessionId, submittedCode) IN
    /\ tokens' = out.tokens
    /\ failures' = out.failures
    /\ last' = Call("verify", sessionId, submittedCode, NoData, out.result, out.ret)
    /\ succ' = IF out.result = "Success"
               THEN [succ EXCEPT ![sessionId] = @ + 1] ELSE succ
    /\ observed' = IF out.observed = << >> THEN observed
                   ELSE [observed EXCEPT ![sessionId] = @ \o out.observed]
    /\ UNCHANGED <<now, nextId, issued, proc, created, cleaned, demoVars, auxVars>>

\* cleanup(): delete the expired rows, return how many were deleted
Cleanup ==
    LET out == cleanup(tokens, now) IN
    /\ tokens' = out.tokens
    /\ cleaned' = cleaned + out.count
    /\ last' = [Call("cleanup", 0, NoCode, NoData, "cleaned", NoIdentity)
                   EXCEPT !.count = out.count]
    /\ UNCHANGED <<now, failures, nextId, issued, succ, observed, proc, created,
                   demoVars, auxVars>>

\* the clock advances
AdvanceTime ==
    /\ now + TickMs <= MaxNow
    /\ now' = now + TickMs
    /\ last' = NoCall
    /\ UNCHANGED <<tokens, failures, nextId, issued, succ, observed, proc, created, cleaned, demoVars, auxVars>>

Next ==
    \/ \E data \in CreateInputs, otp \in generateOtpCode : Create(data, otp)
    \/ \E sessionId \in Sids, submittedCode \in Codes :
          VerifyCode(sessionId, submittedCode)
    \/ Cleanup
    \/ AdvanceTime

Spec == Init /\ [][Next]_vars

(* ------------- verifyCode, one step per store call (SpecConc) ----------- *)

\* lines 56-68: getMagicLinkToken, then the checks made on the row just read;
\* a missing, used or expired row ends the call there with an error and no
\* store write, which leaves no trace in the state
VerifyRead(p, sessionId, submittedCode) ==
    /\ proc[p].pc = "idle"
    /\ sessionId \in DOMAIN tokens
    /\ LET row == tokens[sessionId] IN
       /\ ~isUsed(row)
       /\ ~isExpired(row, now)
       /\ proc' = [proc EXCEPT ![p] =
                     [pc |-> "lockout", sid |-> sessionId, code |-> submittedCode,
                      row |-> row]]
    /\ UNCHANGED <<now, tokens, failures, nextId, issued, last, succ, observed, created, cleaned, demoVars, auxVars>>

\* lines 72-76: getOtpFailureCount and the lockout check
VerifyLockout(p) ==
    /\ proc[p].pc = "lockout"
    /\ IF isLockedOut(failures, proc[p].row.email, now)
       THEN proc' = [proc EXCEPT ![p] = Idle]
       ELSE proc' = [proc EXCEPT ![p].pc = "increment"]
    /\ UNCHANGED <<now, tokens, failures, nextId, issued, last, succ, observed, created, cleaned, demoVars, auxVars>>

\* lines 79-87: incrementTokenAttempts, the limit check and the hash comparison
VerifyIncrement(p) ==
    /\ proc[p].pc = "increment"
    /\ LET sessionId == proc[p].sid
           T1 == incrementTokenAttempts(tokens, sessionId)
           attempts == attemptsSeen(T1, sessionId, proc[p].row)
       IN  /\ tokens' = T1
           /\ observed' = [observed EXCEPT ![sessionId] = Append(@, attempts)]
           /\ proc' = [proc EXCEPT ![p].pc =
                         IF overLimit(attempts) THEN "burn"
                         ELSE IF ~codeMatches(proc[p].row, proc[p].code) THEN "record"
                         ELSE "mark"]
    /\ UNCHANGED <<now, failures, nextId, issued, last, succ, created, cleaned, demoVars, auxVars>>

\* lines 81-82: markMagicLinkTokenUsed, return TooManyAttempts
VerifyBurn(p) ==
    /\ proc[p].pc = "burn"
    /\ tokens' = onTooMany(tokens, failures, proc[p].sid, 0).tokens
    /\ proc' = [proc EXCEPT ![p] = Idle]
    /\ UNCHANGED <<now, failures, nextId, issued, last, succ, observed, created, cleaned, demoVars, auxVars>>

\* lines 89-90: recordOtpFailure, return IncorrectCode
VerifyRecord(p) ==
    /\ proc[p].pc = "record"
    /\ failures' = onMismatch(tokens, failures, proc[p].row, now, proc[p].sid, 0).failures
    /\ proc' = [proc EXCEPT ![p] = Idle]
    /\ UNCHANGED <<now, tokens, nextId, issued, last, succ, observed, created, cleaned, demoVars, auxVars>>

\* lines 94-100: markMagicLinkTokenUsed, return the identity read at the start
VerifyMark(p) ==
    /\ proc[p].pc = "mark"
    /\ tokens' = onMatch(tokens, failures, proc[p].row, proc[p].sid, 0).tokens
    /\ succ' = [succ EXCEPT ![proc[p].sid] = @ + 1]
    /\ proc' = [proc EXCEPT ![p] = Idle]
    /\ UNCHANGED <<now, failures, nextId, issued, last, observed, created, cleaned, demoVars, auxVars>>

\* create, for the one challenge the concurrent callers contend for
CreateConc(data, otp) ==
    /\ nextId = 0
    /\ Create(data, otp)

NextConc ==
    \/ \E data \in CreateInputs, otp \in generateOtpCode : CreateConc(data, otp)
    \/ \E p \in Procs, sessionId \in Sids, submittedCode \in Codes :
          VerifyRead(p, sessionId, submittedCode)
    \/ \E p \in Procs : VerifyLockout(p)
    \/ \E p \in Procs : VerifyIncrement(p)
    \/ \E p \in Procs : VerifyBurn(p)
    \/ \E p \in Procs : VerifyRecord(p)
    \/ \E p \in Procs : VerifyMark(p)
    \/ AdvanceTime

SpecConc == Init /\ [][NextConc]_vars

(* ------------------- the rate limiter on its own (SpecRL) -------------- *)

\* the model checks a key limit + 2 times: enough for limit allowed checks, a
\* denied one and one after the window
MaxChecks(limit) == limit + 2

\* one checkRateLimit(key, limit, windowMs) call; a key is always checked with
\* the limit and window of its first check, as the login route does
CheckRateLimit(key, limit, windowMs) ==
    /\ key \in DOMAIN rl.calls =>
          /\ rl.calls[key].limit = limit
          /\ rl.calls[key].windowMs = windowMs
          /\ rl.calls[key].n < MaxChecks(limit)
    /\ LET out == checkRateLimit(rl.buckets, key, limit, windowMs, rl.now)
           old == IF key \in DOMAIN rl.calls THEN rl.calls[key]
                  ELSE [limit |-> limit, windowMs |-> windowMs, firstAt |-> rl.now,
                        n |-> 0, allowedAt |-> << >>]
           new == [old EXCEPT !.n = @ + 1,
                              !.allowedAt = IF out.allowed THEN Append(@, rl.now)
                                            ELSE @]
       IN  rl' = [now |-> rl.now,
                  ticks |-> rl.ticks,
                  buckets |-> out.buckets,
                  calls |-> [k \in (DOMAIN rl.calls) \cup {key} |->
                               IF k = key THEN new ELSE rl.calls[k]],
                  last |-> [op |-> "check", key |-> key, limit |-> limit,
                            windowMs |-> windowMs, allowed |-> out.allowed,
                            retryAfter |-> out.retryAfter, have |-> out.have,
                            at |-> rl.now, preBuckets |-> rl.buckets]]
    /\ UNCHANGED <<otpVars, flow, jar, auxVars>>

\* the limiter's clock advances
AdvanceClock(d) ==
    /\ rl.ticks < RlMaxTicks
    /\ rl' = [rl EXCEPT !.now = @ + d, !.ticks = @ + 1, !.last = NoCheck]
    /\ UNCHANGED <<otpVars, flow, jar, auxVars>>

NextRL ==
    \/ \E c \in CheckInputs : CheckRateLimit(c[1], c[2], c[3])
    \/ \E d \in RlSteps : AdvanceClock(d)

SpecRL == Init /\ [][NextRL]_vars

(* -------------------- one DPoP-protected request (SpecFlow) ------------- *)

\* the handler builds its first proof and sends the request
SendFirst(kind) ==
    /\ flow.pc = "idle"
    /\ flow' = [flow EXCEPT !.kind = kind, !.pc = "first", !.sent = 1]
    /\ UNCHANGED <<otpVars, rl, jar, auxVars>>

\* the first fetch settles with r
FirstResponse(r) ==
    /\ flow.pc = "first"
    /\ LET todo == afterFirst(flow.kind, r) IN
       flow' = IF todo = "retry"
               THEN [flow EXCEPT !.first = r, !.pc = "second", !.sent = @ + 1]
               ELSE [flow EXCEPT !.first = r, !.pc = "done", !.outcome = todo]
    /\ UNCHANGED <<otpVars, rl, jar, auxVars>>

\* the second fetch settles with r
RetryResponse(r) ==
    /\ flow.pc = "second"
    /\ LET todo == afterRetry(flow.kind, r) IN
       flow' = IF todo = "retry"
               THEN [flow EXCEPT !.second = r, !.sent = @ + 1]
               ELSE [flow EXCEPT !.second = r, !.pc = "done", !.outcome = todo]
    /\ UNCHANGED <<otpVars, rl, jar, auxVars>>

NextFlow ==
    \/ \E kind \in FlowKinds : SendFirst(kind)
    \/ \E r \in Responses : FirstResponse(r)
    \/ \E r \in Responses : RetryResponse(r)

SpecFlow == Init /\ [][NextFlow]_vars

(* ------------------------ signed cookies (SpecCookie) ------------------- *)

\* the login route makes the OAuth-flow cookie and sets it on its redirect
SetOAuthCookie(data) ==
    /\ LET cookie == createOAuthSessionCookie(data) IN
       jar' = [cookies |-> [jar.cookies EXCEPT ![cookie.name] = cookie.value],
               made |-> [jar.made EXCEPT ![cookie.name] = data],
               last |-> [op |-> "createOAuthSessionCookie", result |-> NullSession]]
    /\ UNCHANGED <<otpVars, rl, flow, auxVars>>

\* the callback route reads the OAuth-flow cookie
GetOAuthSession ==
    /\ jar' = [jar EXCEPT !.last = [op |-> "getOAuthSessionFromCookie",
                                     result |-> getOAuthSessionFromCookie(jar.cookies)]]
    /\ UNCHANGED <<otpVars, rl, flow, auxVars>>

\* the callback route deletes the OAuth-flow cookie and sets the user-session
\* cookie
SetUserCookie(data) ==
    /\ LET cookie == createUserSessionCookie(data) IN
       jar' = [cookies |-> [jar.cookies EXCEPT ![OAUTH_COOKIE] = NoCookie,
                                               ![cookie.name] = cookie.value],
               made |-> [jar.made EXCEPT ![OAUTH_COOKIE] = NullSession,
                                         ![cookie.name] = data],
               last |-> [op |-> "createUserSessionCookie", result |-> NullSession]]
    /\ UNCHANGED <<otpVars, rl, flow, auxVars>>

\* a page reads the user-session cookie
GetUserSession ==
    /\ jar' = [jar EXCEPT !.last = [op |-> "getUserSessionFromCookie",
                                     result |-> getUserSessionFromCookie(jar.cookies)]]
    /\ UNCHANGED <<otpVars, rl, flow, auxVars>>

\* the browser presents a value of its own choosing under a cookie name
Present(name, value) ==
    /\ jar' = [cookies |-> [jar.cookies EXCEPT ![name] = value],
               made |-> [jar.made EXCEPT ![name] = NullSession],
               last |-> [op |-> "present", result |-> NullSession]]
    /\ UNCHANGED <<otpVars, rl, flow, auxVars>>

NextCookie ==
    \/ \E data \in OAuthSessions : SetOAuthCookie(data)
    \/ GetOAuthSession
    \/ \E data \in UserSessions : SetUserCookie(data)
    \/ GetUserSession
    \/ \E name \in CookieNames, value \in PresentedValues : Present(name, value)

SpecCookie == Init /\ [][NextCookie]_vars

(* ---------------- SpecCallback: the signed callback redirect ------------ *)

\* the verify-code router signs the callback parameters and redirects the
\* browser to the PDS with them
SignCallback(params) ==
    /\ Cardinality(cb.signed) < MaxCallbacks
    /\ LET s == signCallback(params, magicCallbackSecret, cb.now) IN
           cb' = [cb EXCEPT !.signed = @ \cup {[params |-> params, ts |-> s.ts, sig |-> s.sig]},
                            !.last = CbIdle.last]
    /\ UNCHANGED <<otpVars, demoVars, proof, route, mail, wire, page>>

\* what a client can make of a signed URL: the URL itself, the URL with the
\* timestamp set to the present, the URL with a parameter changed
Replays(url, t) ==
    { url, [url EXCEPT !.ts = t],
      [url EXCEPT !.params.new_account = IF @ = "0" THEN "1" ELSE "0"] }

\* the PDS receives a callback request and verifies it
ReceiveCallback(request) ==
    /\ cb' = [cb EXCEPT !.last =
                 [request |-> request, asked |-> TRUE,
                  accepted |-> verifyCallback(request.params, request.ts, request.sig,
                                              magicCallbackSecret, cb.now)]]
    /\ UNCHANGED <<otpVars, demoVars, proof, route, mail, wire, page>>

\* time passes between the redirect and the request
CallbackClock ==
    /\ cb.ticks < CbMaxTicks
    /\ cb' = [cb EXCEPT !.now = @ + CbStepSeconds, !.ticks = @ + 1,
                        !.last = CbIdle.last]
    /\ UNCHANGED <<otpVars, demoVars, proof, route, mail, wire, page>>

NextCallback ==
    \/ \E params \in CallbackParams : SignCallback(params)
    \/ \E url \in cb.signed : \E request \in Replays(url, cb.now) : ReceiveCallback(request)
    \/ CallbackClock

SpecCallback == Init /\ [][NextCallback]_vars

(* -------------------- SpecDpop: createDpopProof ------------------------- *)

CreateDpopProof(opts, jti) ==
    /\ proof' = [called |-> TRUE, opts |-> opts, token |-> createDpopProof(opts, jti)]
    /\ UNCHANGED <<otpVars, demoVars, cb, route, mail, wire, page>>

NextDpop ==
    \E opts \in DpopOptions, jti \in RandomUUIDs : CreateDpopProof(opts, jti)

SpecDpop == Init /\ [][NextDpop]_vars

(* --------------- SpecRoute: the login and callback routes --------------- *)

\* GET oauth/login
Login(req, state, resolves, par) ==
    LET check == checkRateLimit(rl.buckets, loginKey(req.ip), RATE_LIMIT_LOGIN,
                                RATE_LIMIT_WINDOW_MS, rl.now)
        out == loginRoute(req, check, state, resolves, par)
    IN  /\ rl' = [rl EXCEPT !.buckets = check.buckets]
        /\ jar' = IF out.cookie = NoCookie THEN jar
                  ELSE [jar EXCEPT !.cookies[OAUTH_COOKIE] = out.cookie,
                                   !.made[OAUTH_COOKIE] = out.data]
        /\ route' = [handler |-> "login", request |-> req,
                     check |-> [allowed |-> check.allowed,
                                retryAfter |-> check.retryAfter],
                     exchange |-> out.par, response |-> out.response,
                     cookie |-> out.cookie, preCookies |-> jar.cookies]
        /\ UNCHANGED <<otpVars, flow, cb, proof, mail, wire, page>>

\* GET oauth/callback
Callback(req, a) ==
    LET out == callbackRoute(req, jar.cookies, a.token, a.sub, a.didPds, a.plc)
        asked == out.token.sent > 0 /\ out.token.outcome = "token_ok"
    IN
        /\ jar' = IF out.cookie = NoCookie THEN jar
                  ELSE [jar EXCEPT !.cookies[OAUTH_COOKIE] = NoCookie,
                                   !.cookies[SESSION_COOKIE] = out.cookie,
                                   !.made[OAUTH_COOKIE] = NullSession,
                                   !.made[SESSION_COOKIE] = out.data]
        /\ route' = [handler |-> "callback", request |-> req,
                     sub |-> IF asked THEN a.sub ELSE "",
                     didPds |-> IF asked THEN a.didPds ELSE "throws",
                     exchange |-> out.token, response |-> out.response,
                     cookie |-> out.cookie, preCookies |-> jar.cookies]
        /\ UNCHANGED <<otpVars, rl, flow, cb, proof, mail, wire, page>>

\* an OAuth-flow cookie with its signature replaced, and a user-session
\* cookie in its place
PresentedOAuth ==
    { << v[1], BadSignature >> : v \in { createOAuthSessionCookie(sessionData("", "", st)).value : st \in States } }
      \cup { CHOOSE v \in UserValues : TRUE }

\* the browser presents an OAuth-flow cookie of its own making
PresentOAuth(value) ==
    /\ jar' = [jar EXCEPT !.cookies[OAUTH_COOKIE] = value,
                          !.made[OAUTH_COOKIE] = NullSession]
    /\ route' = NoRun
    /\ UNCHANGED <<otpVars, rl, flow, cb, proof, mail, wire, page>>

NextRoute ==
    \/ \E req \in LoginRequests, state \in States :
          LET check == checkRateLimit(rl.buckets, loginKey(req.ip), RATE_LIMIT_LOGIN,
                                      RATE_LIMIT_WINDOW_MS, rl.now)
          IN  \E resolves \in (IF resolvesHandle(req, check) THEN BOOLEAN ELSE { TRUE }) :
              \E par \in (IF sendsPar(req, check, resolves) THEN ParExchanges
                          ELSE { NoExchange }) :
                 Login(req, state, resolves, par)
    \/ \E req \in CallbackRequests :
          \E a \in (IF sendsToken(req, jar.cookies) THEN TokenAnswers ELSE { NoAnswer }) :
             Callback(req, a)
    \/ \E value \in PresentedOAuth : PresentOAuth(value)

SpecRoute == Init /\ [][NextRoute]_vars

(* ------------------ SpecMail: sending the OTP e-mail -------------------- *)

\* POST /auth/send-code: check the fields and the rate limit, create the
\* challenge, await the e-mail, answer
SendCode(req, limited, otp, delivered) ==
    IF ~issuesCode(req, limited)
    THEN /\ mail' = [mail EXCEPT !.last =
                        [handler |-> "send-code", request |-> req, issued |-> FALSE,
                         sessionId |-> 0, delivered |-> FALSE,
                         limited |-> checksLimit(req) /\ limited,
                         preTokens |-> tokens, preSends |-> mail.sends,
                         preRecorded |-> mail.recorded,
                         response |-> IF ~checksLimit(req)
                                      THEN Page(400, 0, "bad request")
                                      ELSE Page(200, 0, "Too many requests. Please wait a moment.")]]
         /\ UNCHANGED <<otpVars, demoVars, cb, proof, route, wire, page>>
    ELSE /\ nextId < MaxSessions
         /\ LET sessionId == nextId + 1
                data == createData(req)
            IN  /\ tokens' = createMagicLinkToken(tokens,
                                                  newToken(data, otp, sessionId, now))
                /\ issued' = [s \in (DOMAIN issued) \cup {sessionId} |->
                                 IF s = sessionId THEN otp.code ELSE issued[s]]
                /\ nextId' = sessionId
                /\ created' = [s \in (DOMAIN created) \cup {sessionId} |->
                                  IF s = sessionId
                                  THEN [email |-> toLowerCase(data.email),
                                        authRequestId |-> data.authRequestId,
                                        clientId |-> data.clientId]
                                  ELSE created[s]]
                /\ last' = Call("create", sessionId, otp.code, data, "created", NoIdentity)
                /\ mail' = [sends |-> mail.sends + 1,
                            logged |-> mail.logged + (IF delivered THEN 0 ELSE 1),
                            recorded |-> mail.recorded + (IF delivered THEN 1 ELSE 0),
                            last |-> [handler |-> "send-code", request |-> req,
                                      issued |-> TRUE, sessionId |-> sessionId,
                                      delivered |-> delivered,
                                      limited |-> limited,
                                      preTokens |-> tokens, preSends |-> mail.sends,
                                      preRecorded |-> mail.recorded,
                                      response |-> afterSend(sessionId, delivered)]]
         /\ UNCHANGED <<now, failures, succ, observed, proc, cleaned, demoVars,
                        cb, proof, route, wire, page>>

\* sendVerificationOTP of the better-auth configuration: the send is started,
\* its failure is logged, and the function returns without awaiting it
SendVerificationOTP(email, delivered) ==
    /\ mail.sends < MaxMails
    /\ mail' = [mail EXCEPT !.sends = @ + 1,
                            !.logged = @ + (IF delivered THEN 0 ELSE 1),
                            !.last = [handler |-> "sendVerificationOTP",
                                      request |-> [email |-> email, request_uri |-> "",
                                                   client_id |-> ""],
                                      issued |-> TRUE, sessionId |-> 0,
                                      delivered |-> delivered,
                                      response |-> Page(200, 0, "")]]
    /\ UNCHANGED <<otpVars, demoVars, cb, proof, route, wire, page>>

NextMail ==
    \/ \E req \in SendCodeRequests, limited \in BOOLEAN, otp \in generateOtpCode,
          delivered \in BOOLEAN :
          SendCode(req, limited, otp, delivered)
    \/ \E email \in { "alice@example.com", "bob@example.com" }, delivered \in BOOLEAN :
          SendVerificationOTP(email, delivered)

SpecMail == Init /\ [][NextMail]_vars

(* ----------------- SpecVerify: the verify-code route -------------------- *)

\* POST /auth/verify-code: check the fields, call verifyCode, look the
\* account up, then re-render the form, ask for consent or sign the callback
VerifyCodePost(form, isNewAccount, hasClientLogin) ==
    IF missingFields(form)
    THEN /\ page' = [handler |-> "verify-code", form |-> form, called |-> FALSE,
                     result |-> "none",
                     response |-> [status |-> 400, kind |-> "text",
                                   error |-> "Missing required fields.",
                                   request_uri |-> "", email |-> "",
                                   callback |-> NoCallback]]
         /\ UNCHANGED <<otpVars, demoVars, cb, proof, route, mail, wire>>
    ELSE LET out == verifyCode(tokens, failures, now, form.session_id, form.code) IN
         /\ tokens' = out.tokens
         /\ failures' = out.failures
         /\ last' = Call("verify", form.session_id, form.code, NoData, out.result,
                         out.ret)
         /\ succ' = IF out.result = "Success"
                    THEN [succ EXCEPT ![form.session_id] = @ + 1] ELSE succ
         /\ observed' = IF out.observed = << >> THEN observed
                        ELSE [observed EXCEPT ![form.session_id] = @ \o out.observed]
         /\ page' = [handler |-> "verify-code", form |-> form, called |-> TRUE,
                     result |-> out.result,
                     response |-> verifyCodeResponse(form, out, isNewAccount,
                                                     hasClientLogin, now \div 1000)]
         /\ UNCHANGED <<now, nextId, issued, proc, created, cleaned, demoVars,
                        cb, proof, route, mail, wire>>

NextVerify ==
    \/ \E data \in CreateInputs, otp \in generateOtpCode : Create(data, otp)
    \/ \E form \in VerifyForms :
          LET succeeds == ~missingFields(form)
                            /\ verifyCode(tokens, failures, now, form.session_id,
                                          form.code).result = "Success"
          IN  \E isNewAccount \in (IF succeeds THEN BOOLEAN ELSE { TRUE }),
                 hasClientLogin \in (IF succeeds THEN BOOLEAN ELSE { TRUE }) :
                 VerifyCodePost(form, isNewAccount, hasClientLogin)

SpecVerify == Init /\ [][NextVerify]_vars

(* --------------- SpecWire: the OAuth flows on the wire ------------------ *)

\* GET oauth/login with the requests it sends
LoginFlow(req, resolves, par, dpopNonce, jtis) ==
    LET check == checkRateLimit(rl.buckets, loginKey(req.ip), RATE_LIMIT_LOGIN,
                                RATE_LIMIT_WINDOW_MS, rl.now)
        n == wire.flows + 1
        out == loginRouteOf(req, check, flowSessionData(req.email, req.handle, n),
                            resolves, par)
        requests == parRequests(out.par, n, dpopNonce, jtis)
    IN  /\ wire.flows < MaxFlows
        /\ rl' = [rl EXCEPT !.buckets = check.buckets]
        /\ jar' = IF out.cookie = NoCookie THEN jar
                  ELSE [jar EXCEPT !.cookies[OAUTH_COOKIE] = out.cookie,
                                   !.made[OAUTH_COOKIE] = out.data]
        /\ wire' = [flows |-> IF requests = << >> THEN wire.flows ELSE n,
                    par |-> IF requests = << >> THEN wire.par
                            ELSE Append(wire.par,
                                        [body |-> requests[1].body,
                                         jwk |-> decodePart(requests[1].dpop, 1).jwk]),
                    last |-> [handler |-> "login", state |-> generateState(n),
                              requests |-> requests, nonce |-> dpopNonce,
                              exchange |-> out.par, response |-> out.response]]
        /\ UNCHANGED <<otpVars, flow, cb, proof, route, mail, page>>

\* GET oauth/callback with the requests it sends
CallbackFlow(req, a, dpopNonce, jtis) ==
    LET out == callbackRoute(req, jar.cookies, a.token, a.sub, a.didPds, a.plc)
        requests == tokenRequests(req, jar.cookies, out.token, dpopNonce, jtis)
    IN  /\ jar' = IF out.cookie = NoCookie THEN jar
                  ELSE [jar EXCEPT !.cookies[OAUTH_COOKIE] = NoCookie,
                                   !.cookies[SESSION_COOKIE] = out.cookie,
                                   !.made[OAUTH_COOKIE] = NullSession,
                                   !.made[SESSION_COOKIE] = out.data]
        /\ wire' = [wire EXCEPT !.last =
                        [handler |-> "callback", state |-> req.state,
                         requests |-> requests, nonce |-> dpopNonce,
                         exchange |-> out.token, response |-> out.response]]
        /\ UNCHANGED <<otpVars, rl, flow, cb, proof, route, mail, page>>

NextWire ==
    \/ \E req \in WireLogins :
          LET check == checkRateLimit(rl.buckets, loginKey(req.ip), RATE_LIMIT_LOGIN,
                                      RATE_LIMIT_WINDOW_MS, rl.now)
          IN  \E par \in (IF sendsPar(req, check, TRUE) THEN ParExchanges
                          ELSE { NoExchange }) :
              \E dpopNonce \in NoncesFor(par.sent), jtis \in JtisFor(par.sent) :
                 LoginFlow(req, TRUE, par, dpopNonce, jtis)
    \/ \E req \in WireCallbacks :
          \E a \in (IF sendsToken(req, jar.cookies) THEN WireAnswers ELSE { NoAnswer }) :
          \E dpopNonce \in NoncesFor(a.token.sent), jtis \in JtisFor(a.token.sent) :
             CallbackFlow(req, a, dpopNonce, jtis)

SpecWire == Init /\ [][NextWire]_vars

(* ------------------------------------------------------------------------ *)
(*                              Properties                                  *)
(* ------------------------------------------------------------------------ *)

LastVerify == last.op = "verify"

\* the challenge the last call named was in the store when the call began
PreStored == last.sid \in DOMAIN last.preTokens

PreRow == last.preTokens[last.sid]

\* the last call submitted the code create issued for its session id
IssuedCode == last.sid \in DOMAIN issued /\ last.code = issued[last.sid]

PreLocked ==
    getOtpFailureCount(last.preFailures, PreRow.email, ONE_HOUR_MS, now)
        >= OTP_LOCKOUT_THRESHOLD

StoreUnchanged == tokens = last.preTokens /\ failures = last.preFailures

\* the last call is a later call with a pair that has already verified
LaterCall == LastVerify /\ IssuedCode /\ succ[last.sid] >= 1 /\ last.result # "Success"

C1_FirstSucceeds ==
    (LastVerify /\ PreStored /\ IssuedCode /\ PreRow.attempts = 0 /\ ~PreRow.used
        /\ ~(PreRow.expiresAt < now) /\ ~PreLocked)
    => (last.result = "Success" /\ last.ret = identityOf(PreRow))

\* C1 as stated: verifyCode with the issued code succeeds on the first call on
\* a fresh, unexpired, non-locked challenge, and every later call with the
\* same (sessionId, code) pair returns AlreadyUsed
C1_Original ==
    /\ C1_FirstSucceeds
    /\ LaterCall => last.result = "AlreadyUsed"

\* C1 (amended): verifyCode with the issued code succeeds exactly once: the
\* first call on a fresh, unexpired, non-locked challenge returns the identity,
\* no session id verifies twice, and every later call with the same pair
\* returns AlreadyUsed while the challenge is stored and InvalidOrExpired once
\* cleanup has removed it
C1_SucceedsOnce ==
    /\ C1_FirstSucceeds
    /\ \A s \in Sids : succ[s] <= 1
    /\ LaterCall =>
          last.result = (IF PreStored THEN "AlreadyUsed" ELSE "InvalidOrExpired")

C1_Witness ==
    LastVerify /\ IssuedCode /\ succ[last.sid] = 1 /\ last.result = "AlreadyUsed"

\* C2: of the verifyCode calls on one sessionId that interleave their store
\* reads and writes, at most one returns the verified identity
C2_AtMostOneIdentity == \A s \in Sids : succ[s] <= 1

\* C3: no two verifyCode calls on one challenge observe the same incremented
\* attempts value, so at most maxAttemptsPerToken of them pass the attempt
\* check and reach the code comparison
C3_AtomicIncrement ==
    \A s \in Sids :
        /\ \A i, j \in 1 .. Len(observed[s]) :
              i # j => observed[s][i] # observed[s][j]
        /\ Cardinality({ i \in 1 .. Len(observed[s]) :
                            observed[s][i] <= maxAttemptsPerToken })
              <= maxAttemptsPerToken

\* two callers are past the increment of the same challenge at the same time
C3_Witness ==
    \E p, q \in Procs :
        /\ p # q
        /\ proc[p].sid = proc[q].sid
        /\ proc[p].pc \in {"burn", "record", "mark"}
        /\ proc[q].pc \in {"burn", "record", "mark"}

\* C4 as stated: a verifyCode call made after the challenge's expiresAt has
\* passed returns Expired, whatever code is submitted
C4_Original ==
    (LastVerify /\ PreStored /\ PreRow.expiresAt < now) => last.result = "Expired"

\* C4 (amended): a verifyCode call made after the expiresAt of a stored
\* challenge has passed never succeeds and changes nothing, whatever code is
\* submitted: it returns Expired when the challenge is unused and AlreadyUsed
\* when it is used
C4_ExpiredRejected ==
    (LastVerify /\ PreStored /\ PreRow.expiresAt < now)
    => /\ last.result = (IF PreRow.used THEN "AlreadyUsed" ELSE "Expired")
       /\ StoreUnchanged

C4_Witness ==
    LastVerify /\ PreStored /\ IssuedCode /\ last.result = "Expired"

\* C5 as stated, for a call that directly follows the (maxAttemptsPerToken+1)-th
\* incorrect call on the challenge (the one answered TooManyAttempts): it
\* returns TooManyAttempts too
C5_OriginalStep ==
    (/\ LastVerify /\ IssuedCode = FALSE /\ last.sid \in DOMAIN issued
     /\ last.result = "TooManyAttempts"
     /\ last'.op = "verify" /\ last'.sid = last.sid /\ last' # last)
    => last'.result = "TooManyAttempts"

C5_Original == [][C5_OriginalStep]_vars

\* C5 (amended): once maxAttemptsPerToken calls have consumed an attempt on a
\* challenge no later call on it succeeds, whatever the code: the next call to
\* pass the used, expiry and lockout checks returns TooManyAttempts and marks
\* the challenge used, and every call after that on the stored challenge
\* returns AlreadyUsed
C5_Burned ==
    (LastVerify /\ PreStored /\ PreRow.attempts >= maxAttemptsPerToken)
    => /\ last.result # "Success"
       /\ PreRow.attempts > maxAttemptsPerToken => last.result = "AlreadyUsed"
       /\ last.result = "TooManyAttempts" =>
             PreRow.attempts = maxAttemptsPerToken /\ tokens[last.sid].used

C5_Witness ==
    /\ LastVerify /\ PreStored /\ IssuedCode
    /\ PreRow.attempts = maxAttemptsPerToken + 1
    /\ last.result = "AlreadyUsed"

\* C6: once the email of an unused, unexpired challenge has lockoutThreshold
\* failures inside the lockout window, verifyCode returns Locked for any code
\* and leaves the attempts counter, the used flag and the failure log as they were
C6_LockedBeforeAttempt ==
    (LastVerify /\ PreStored /\ ~PreRow.used /\ ~(PreRow.expiresAt < now) /\ PreLocked)
    => (last.result = "Locked" /\ StoreUnchanged)

\* a brand-new challenge is answered Locked after failures on another challenge
C6_Witness ==
    /\ LastVerify /\ PreStored /\ last.result = "Locked"
    /\ PreRow.attempts = 0
    /\ \E r \in DOMAIN failures : r.email = PreRow.email /\ r.failedAt >= StartNow

C7_NoSuccessWhenDead ==
    (LastVerify /\ last.result = "Success")
    => (PreStored /\ ~PreRow.used /\ ~(PreRow.expiresAt < now))

C7_Step ==
    /\ \A s \in DOMAIN tokens :
          tokens[s].used => (s \notin DOMAIN tokens' \/ tokens'[s].used)
    /\ \A s \in 1 .. nextId : s \notin DOMAIN tokens => s \notin DOMAIN tokens'

\* C7: a used challenge never becomes unused again (it stays used until it is
\* removed, and a removed challenge never comes back), and no verifyCode call
\* succeeds on a challenge that is used or past its expiresAt
C7_UsedIsTerminal == []C7_NoSuccessWhenDead /\ [][C7_Step]_vars

C7_Witness ==
    /\ LastVerify /\ PreStored /\ IssuedCode
    /\ PreRow.used /\ PreRow.expiresAt < now

\* C8 as stated: every verifyCode call that returns an error for a stored
\* challenge (wrong code, expired, over-attempt-limit, over-lockout) leaves it
\* with used = false
C8_Original ==
    (LastVerify /\ PreStored
        /\ last.result \in {"IncorrectCode", "Expired", "TooManyAttempts", "Locked"})
    => ~tokens[last.sid].used

\* C8 (amended): a verifyCode call that returns IncorrectCode, Expired or
\* Locked leaves the challenge with used = false; used goes from false to true
\* only in a verifyCode call on that challenge that returns Success or
\* TooManyAttempts, and both of those leave it used
C8_ErrorsKeepCreated ==
    /\ (LastVerify /\ PreStored /\ last.result \in {"IncorrectCode", "Expired", "Locked"})
          => ~tokens[last.sid].used
    /\ \A s \in (DOMAIN tokens) \cap (DOMAIN last.preTokens) :
          (~last.preTokens[s].used /\ tokens[s].used)
          => (LastVerify /\ last.sid = s
                 /\ last.result \in {"Success", "TooManyAttempts"})
    /\ (LastVerify /\ last.result \in {"Success", "TooManyAttempts"})
          => tokens[last.sid].used

C8_Witness ==
    /\ LastVerify /\ PreStored /\ last.result = "TooManyAttempts"
    /\ ~PreRow.used /\ tokens[last.sid].used

RowFields == {"email", "expiresAt", "authRequestId", "clientId", "deviceInfo",
              "codeHash", "attempts", "used"}

\* C9: no stored challenge row and no failure-log entry holds a raw code: a row
\* holds the hash of the code create returned for it, and a log entry holds an
\* email and a time
C9_NoRawCodeStored ==
    /\ \A s \in DOMAIN tokens :
          /\ DOMAIN tokens[s] = RowFields
          /\ tokens[s].codeHash \notin Codes
          /\ tokens[s].codeHash = hashToken(issued[s])
    /\ \A r \in DOMAIN failures : DOMAIN r = {"email", "failedAt"}

C9_Witness ==
    /\ LastVerify /\ last.result = "IncorrectCode"
    /\ \E s \in DOMAIN tokens : tokens[s].attempts > 0
    /\ \E r \in DOMAIN failures : r.failedAt >= StartNow

\* C10: create persists exactly one new challenge, keyed by the returned
\* sessionId, with the email lowercased, attempts = 0, used = false and
\* expiresAt = now + expiryMinutes, and changes no other challenge
C10_CreatePersistsOne ==
    last.op = "create"
    => /\ last.sid \notin DOMAIN last.preTokens
       /\ DOMAIN tokens = (DOMAIN last.preTokens) \cup {last.sid}
       /\ \A s \in DOMAIN last.preTokens : tokens[s] = last.preTokens[s]
       /\ tokens[last.sid].email = toLowerCase(last.data.email)
       /\ tokens[last.sid].authRequestId = last.data.authRequestId
       /\ tokens[last.sid].attempts = 0
       /\ tokens[last.sid].used = FALSE
       /\ tokens[last.sid].expiresAt = now + expiryMinutes * 60 * 1000
       /\ failures = last.preFailures

C10_Witness ==
    /\ last.op = "create"
    /\ last.data.email # toLowerCase(last.data.email)
    /\ \E s \in DOMAIN last.preTokens : last.preTokens[s].attempts > 0

\* C11: a successful verifyCode(sessionId, code) returns exactly the normalized
\* email, the authRequestId and the clientId that the create call which
\* produced sessionId was given, whatever other challenges the store holds
C11_ReturnsOwnIdentity ==
    (LastVerify /\ last.result = "Success")
    => /\ last.sid \in DOMAIN created
       /\ last.ret = created[last.sid]

\* a challenge verifies while the store holds a challenge of another identity
C11_Witness ==
    /\ LastVerify /\ last.result = "Success"
    /\ last.ret.clientId # Null
    /\ \E s \in DOMAIN last.preTokens :
          s # last.sid /\ created[s] # created[last.sid]

\* C12: verifyCode with a sessionId for which the store holds no challenge
\* returns InvalidOrExpired and leaves every challenge and the failure log
\* unchanged
C12_MissingRejected ==
    (LastVerify /\ ~PreStored)
    => (last.result = "InvalidOrExpired" /\ last.ret = NoIdentity /\ StoreUnchanged)

\* a session id that create never returned is submitted while the store holds
\* another challenge and failures
C12_Witness ==
    /\ LastVerify /\ ~PreStored
    /\ last.sid \notin DOMAIN issued
    /\ \E s \in DOMAIN tokens : tokens[s].attempts > 0
    /\ \E r \in DOMAIN failures : r.failedAt >= StartNow

LastCleanup == last.op = "cleanup"

\* the session ids whose challenge is no longer stored
Removed == { s \in 1 .. nextId : s \notin DOMAIN tokens }

\* C13: cleanup removes exactly the challenges whose expiresAt has passed and
\* returns the number removed: an unexpired challenge stays as it was, a call
\* made again at once removes nothing and returns 0, and over all cleanup
\* calls each expired challenge is removed and counted once
C13_CleanupExact ==
    /\ LastCleanup =>
          /\ DOMAIN tokens =
                { s \in DOMAIN last.preTokens : ~(last.preTokens[s].expiresAt < now) }
          /\ \A s \in DOMAIN tokens : tokens[s] = last.preTokens[s]
          /\ last.count =
                Cardinality({ s \in DOMAIN last.preTokens :
                                 last.preTokens[s].expiresAt < now })
          /\ failures = last.preFailures
          /\ cleanup(tokens, now) = [tokens |-> tokens, count |-> 0]
    /\ cleaned = Cardinality(Removed)

\* a cleanup call removes an expired challenge and keeps an unexpired one
C13_Witness ==
    /\ LastCleanup /\ last.count = 1 /\ cleaned = 1
    /\ \E s \in DOMAIN tokens : tokens[s].attempts > 0

\* cleanup is called again right after a cleanup that removed a challenge
C13_WitnessAgain ==
    /\ LastCleanup /\ last.count = 0 /\ cleaned >= 1
    /\ last.preTokens = tokens

(* ----------------------------- rate limiter ------------------------------ *)

LastCheck == rl.last.op = "check"

\* what the model has recorded about the key of the last check
LastKey == rl.calls[rl.last.key]

\* the key of the last check had a bucket before the check
PreBucket == rl.last.key \in DOMAIN rl.last.preBuckets

\* time between the first check of the key and the last check
SinceFirst == rl.last.at - LastKey.firstAt

\* number of checks of the key that were allowed before the last check
AllowedBefore ==
    Len(LastKey.allowedAt) - (IF rl.last.allowed THEN 1 ELSE 0)

\* the first limit checks of a key never seen before are allowed
C14_FirstAllowed == (LastCheck /\ LastKey.n <= rl.last.limit) => rl.last.allowed

\* a check made once the window has elapsed since the first check of a key of
\* which at most limit checks were allowed is allowed
C14_AllowedAgain ==
    (LastCheck /\ SinceFirst >= rl.last.windowMs /\ AllowedBefore <= rl.last.limit)
    => rl.last.allowed

\* C14 as stated: from a key never seen before the first L checks are
\* allowed, the (L+1)-th check within the window is denied, and a check made
\* once the window has elapsed is allowed again
C14_Original ==
    /\ C14_FirstAllowed
    /\ (LastCheck /\ LastKey.n = rl.last.limit + 1 /\ SinceFirst < rl.last.windowMs)
          => ~rl.last.allowed
    /\ C14_AllowedAgain

\* C14 (amended): from a key never seen before the first L checks are allowed;
\* the (L+1)-th check is denied when it is made before one token has refilled,
\* that is less than W / L after the first check; and a check made once W has
\* elapsed is allowed again
C14_LimitThenRefill ==
    /\ C14_FirstAllowed
    /\ (LastCheck /\ LastKey.n = rl.last.limit + 1
           /\ SinceFirst * rl.last.limit < rl.last.windowMs)
          => ~rl.last.allowed
    /\ C14_AllowedAgain

\* L allowed checks, a denied one, and an allowed one after the window
C14_Witness ==
    /\ LastCheck /\ rl.last.allowed
    /\ LastKey.n = rl.last.limit + 2
    /\ Len(LastKey.allowedAt) = rl.last.limit + 1
    /\ SinceFirst >= rl.last.windowMs

\* what the bucket of the last check held once refilled, in windowMs-ths of a
\* token
HadTokens ==
    IF PreBucket
    THEN Min(rl.last.limit * rl.last.windowMs,
             rl.last.preBuckets[rl.last.key].tokens
               + (rl.last.at - rl.last.preBuckets[rl.last.key].lastRefill)
                   * rl.last.limit)
    ELSE rl.last.limit * rl.last.windowMs

C17_KeysIndependent ==
    LastCheck =>
       /\ DOMAIN rl.buckets = (DOMAIN rl.last.preBuckets) \cup {rl.last.key}
       /\ \A k \in DOMAIN rl.last.preBuckets :
             k # rl.last.key => rl.buckets[k] = rl.last.preBuckets[k]
       /\ ~PreBucket => rl.last.allowed

\* a key is checked and allowed while the bucket of another key is exhausted
C17_Witness ==
    /\ LastCheck /\ rl.last.allowed
    /\ \E k \in DOMAIN rl.last.preBuckets :
          /\ k # rl.last.key
          /\ rl.last.preBuckets[k].tokens < rl.calls[k].windowMs
          /\ rl.calls[k].n > Len(rl.calls[k].allowedAt)

(* ------------------------------ nonce retry ------------------------------ *)

Routes == { "login", "callback" }

\* C18: for one PAR request of the login route and one token request of the
\* callback route at most two HTTP requests are sent, and when the retry fails
\* too the handler stops with a failure redirect, whatever the endpoint
\* answered, a further dpop-nonce challenge included
C18_RetryBounded ==
    /\ flow.sent <= 2
    /\ (flow.kind \in Routes /\ flow.sent = 2 /\ flow.pc # "second"
           /\ ~flow.second.ok)
          => /\ flow.pc = "done"
             /\ flow.outcome \in {"par_failed", "auth_failed"}
             /\ flow.outcome = (IF flow.second.thrown THEN "auth_failed"
                                 ELSE Failed(flow.kind))

\* the retry of a route is answered with another dpop-nonce challenge
C18_Witness ==
    /\ flow.kind \in Routes /\ flow.pc = "done" /\ flow.sent = 2
    /\ flow.second.status = 400 /\ flow.second.nonce

\* C19: the PAR request of the login route is sent again only when the first
\* response is not OK, has status 400 and carries a dpop-nonce header; any
\* other failed first response is terminal
C19_RetryOnlyOn400 ==
    (flow.kind = "login" /\ flow.sent = 2)
    => (~flow.first.ok /\ flow.first.status = 400 /\ flow.first.nonce)

(* ------------------------------ signed cookies --------------------------- *)

\* the object reads the same as the payload, property by property
SamePayload(obj, payload, fields) ==
    /\ obj # NullSession
    /\ \A i \in 1 .. Len(fields) : Read(obj, fields[i]) = Read(payload, fields[i])
    /\ \A f \in DOMAIN obj : \E i \in 1 .. Len(fields) : fields[i] = f

LastGet ==
    jar.last.op \in {"getOAuthSessionFromCookie", "getUserSessionFromCookie"}

ReadValue ==
    jar.cookies[IF jar.last.op = "getOAuthSessionFromCookie"
                THEN OAUTH_COOKIE ELSE SESSION_COOKIE]

Encoded == OAuthValues \cup UserValues

\* C21: decoding a cookie returns null when the cookie is missing, when its
\* structure is malformed, and when its payload or signature differs from what
\* encode produced under the demo's secret; a non-null result is returned only
\* for a value encode produced with that secret, and is the payload of that
\* value
C21_NullUnlessEncoded ==
    LastGet =>
       /\ jar.last.result # NullSession <=> ReadValue \in Encoded
       /\ jar.last.result # NullSession =>
             jar.last.result = parse(fromBase64url(ReadValue[1]))

\* a tampered value, whose payload is still the one that was signed, is
\* read and answered with null
C21_Witness ==
    /\ LastGet /\ jar.last.result = NullSession
    /\ Len(ReadValue) = 2
    /\ \E v \in Encoded : ReadValue[1] = v[1] /\ ReadValue[2] # v[2]

C23_AcceptedWithinWindow ==
    cb.last.asked =>
       (cb.last.accepted <=>
          /\ cb.last.request \in cb.signed
          /\ cb.now - cb.last.request.ts <= CALLBACK_TTL_SECONDS)

\* a URL as it was signed, with its valid signature, is rejected once the
\* replay window has passed
C23_Witness ==
    /\ cb.last.asked /\ ~cb.last.accepted
    /\ cb.last.request \in cb.signed
    /\ cb.now - cb.last.request.ts > CALLBACK_TTL_SECONDS

\* a URL is accepted at the very end of the replay window
C23_WitnessAccepted ==
    /\ cb.last.asked /\ cb.last.accepted
    /\ cb.now - cb.last.request.ts = CALLBACK_TTL_SECONDS

\* the parts of the proof just made
ProofHeader == decodePart(proof.token, 1)

ProofPayload == decodePart(proof.token, 2)

\* three parts, the header {alg, typ, jwk} and htm, htu as supplied
ProofShape ==
    /\ Len(proof.token) = 3
    /\ ProofHeader = [alg |-> "ES256", typ |-> "dpop+jwt", jwk |-> proof.opts.jwk]
    /\ ProofPayload.htm = proof.opts.method
    /\ ProofPayload.htu = proof.opts.url

\* C24 as stated: the proof has three parts, the header {alg: ES256, typ:
\* dpop+jwt, jwk}, htm and htu as supplied, a nonce exactly when a nonce was
\* supplied and ath exactly when an access token was supplied
C24_Original ==
    proof.called =>
       /\ ProofShape
       /\ "nonce" \in DOMAIN ProofPayload <=> proof.opts.nonce # Undefined
       /\ "nonce" \in DOMAIN ProofPayload => ProofPayload.nonce = proof.opts.nonce
       /\ "ath" \in DOMAIN ProofPayload <=> proof.opts.accessToken # Undefined

\* C24 (amended): the proof has three parts, the header {alg: ES256, typ:
\* dpop+jwt, jwk}, htm and htu as supplied, a nonce exactly when a non-empty
\* nonce was supplied (then equal to it) and ath exactly when a non-empty
\* access token was supplied (then its SHA-256)
C24_ProofFields ==
    proof.called =>
       /\ ProofShape
       /\ "nonce" \in DOMAIN ProofPayload <=> proof.opts.nonce \notin { Undefined, "" }
       /\ "nonce" \in DOMAIN ProofPayload => ProofPayload.nonce = proof.opts.nonce
       /\ "ath" \in DOMAIN ProofPayload <=> proof.opts.accessToken \notin { Undefined, "" }
       /\ "ath" \in DOMAIN ProofPayload =>
             ProofPayload.ath = sha256Base64url(proof.opts.accessToken)

\* a proof made with an empty nonce and a real access token
C24_Witness ==
    /\ proof.called
    /\ proof.opts.nonce = "" /\ "nonce" \notin DOMAIN ProofPayload
    /\ proof.opts.accessToken = "my-access-token" /\ "ath" \in DOMAIN ProofPayload

\* C26: a network failure of a PAR or token request is terminal: once the
\* first or the second fetch of a route throws, the route sends no further
\* request and ends with the generic auth_failed redirect
C26_ThrownIsTerminal ==
    /\ (flow.kind \in Routes /\ flow.first.thrown)
          => flow.pc = "done" /\ flow.sent = 1 /\ flow.outcome = "auth_failed"
    /\ (flow.kind \in Routes /\ flow.second.thrown)
          => flow.pc = "done" /\ flow.sent = 2 /\ flow.outcome = "auth_failed"

\* the retry of the login route throws after a nonce challenge
C26_Witness ==
    /\ flow.kind = "login" /\ flow.first.nonce /\ flow.second.thrown
    /\ flow.outcome = "auth_failed"

\* the first token request of the callback route throws
C26_WitnessFirst ==
    flow.kind = "callback" /\ flow.first.thrown /\ flow.pc = "done"

(* ------------------------- login and callback routes --------------------- *)

\* C25: in the login route the rate-limit check comes first: when
\* checkRateLimit denies the request the response is 429 with a Retry-After
\* header that is the limiter's retryAfter, no PAR request is sent and no
\* OAuth session cookie is set
C25_DeniedFirst ==
    (route.handler = "login" /\ ~route.check.allowed) =>
       /\ route.response.status = 429
       /\ route.response.retryAfter = String(route.check.retryAfter)
       /\ route.exchange.sent = 0
       /\ route.cookie = NoCookie
       /\ jar.cookies = route.preCookies

\* a request that would also fail validation is denied by the limiter
C25_Witness ==
    /\ route.handler = "login" /\ ~route.check.allowed
    /\ route.request.email = "userexample.com"
    /\ route.response.status = 429

\* the OAuth session the callback request carried, and whether the handler
\* set a user-session cookie
CarriedSession == decode(route.preCookies[OAUTH_COOKIE], SESSION_SECRET)

SetsUserCookie ==
    /\ route.cookie # NoCookie
    /\ jar.cookies[SESSION_COOKIE] = route.cookie

\* C28: the callback route sets the user session cookie only when the OAuth
\* cookie decoded to a valid session, its state equals the query state, the
\* token exchange succeeded at the first request or at the single retry, and
\* the DID checks passed; every other path ends in the redirect to
\* /?error=auth_failed and leaves the user-session cookie as it was
C28_CookieOnlyOnSuccess ==
    route.handler = "callback" =>
       /\ SetsUserCookie =>
             /\ CarriedSession # NullSession
             /\ Read(CarriedSession, "state") = route.request.state
             /\ route.request.error = "" /\ route.request.code # ""
             /\ \/ route.exchange.sent = 1 /\ route.exchange.first.ok
                \/ route.exchange.sent = 2 /\ route.exchange.second.ok
             /\ Read(CarriedSession, "expectedDid") # Undefined
                   => route.sub = Read(CarriedSession, "expectedDid")
             /\ (Read(CarriedSession, "expectedDid") = Undefined /\ route.sub # "")
                   => route.didPds = "match"
             /\ route.response = Redirect("/welcome")
       /\ ~SetsUserCookie =>
             /\ route.response = Redirect("/?error=auth_failed")
             /\ jar.cookies = route.preCookies

\* the cookie is set after a nonce retry for a login that expected a DID
C28_Witness ==
    /\ route.handler = "callback" /\ SetsUserCookie
    /\ route.exchange.sent = 2
    /\ Read(CarriedSession, "expectedDid") = "did:plc:abc123"

\* a callback whose state is not the one of the cookie is turned away
C28_WitnessState ==
    /\ route.handler = "callback" /\ ~SetsUserCookie
    /\ CarriedSession # NullSession
    /\ route.request.code # "" /\ route.request.error = ""
    /\ route.request.state = "state-2"

\* the token's DID is not the expected one
C28_WitnessDid ==
    /\ route.handler = "callback" /\ ~SetsUserCookie
    /\ route.exchange.outcome = "token_ok" /\ route.sub = "did:plc:evil"

(* ------------------------------ OTP e-mail ------------------------------- *)

\* C27: sending the OTP e-mail is fire-and-forget: the response of the
\* operation that issued the code is the one it gives when the e-mail is
\* delivered, whether or not the transport succeeded, the challenge is
\* created either way, and the send is tried once
C27_FireAndForget ==
    (mail.last.handler # "none" /\ mail.last.issued) =>
       /\ mail.last.handler = "send-code" =>
             /\ mail.last.response = afterSend(mail.last.sessionId, TRUE)
             /\ mail.last.sessionId \in DOMAIN tokens
       /\ mail.last.handler = "sendVerificationOTP" =>
             mail.last.response = Page(200, 0, "")
       /\ mail.sends <= nextId + MaxMails

(* --------------------------- attempt accounting -------------------------- *)

\* the number of the last call among the calls that reached the attempt
\* counter of its challenge
CallNumber == Len(observed[last.sid])

\* the last call submitted the issued code to a challenge that was unused,
\* unexpired and not locked out, all earlier calls having submitted wrong codes
BoundaryCall ==
    /\ LastVerify /\ PreStored /\ IssuedCode
    /\ ~PreRow.used /\ ~isExpired(PreRow, now) /\ ~PreLocked
    /\ succ[last.sid] = (IF last.result = "Success" THEN 1 ELSE 0)

\* C29: on a fresh, unexpired, non-locked challenge whose first k-1 calls
\* submitted wrong codes, the k-th call, submitting the correct code, succeeds
\* exactly when k <= maxAttemptsPerToken; for k = maxAttemptsPerToken + 1 it
\* returns TooManyAttempts and marks the challenge used
C29_AttemptBoundary ==
    BoundaryCall =>
       /\ CallNumber = PreRow.attempts + 1
       /\ last.result = "Success" <=> CallNumber <= maxAttemptsPerToken
       /\ CallNumber = maxAttemptsPerToken + 1 =>
             /\ last.result = "TooManyAttempts"
             /\ tokens[last.sid].used

\* the correct code arrives as call maxAttemptsPerToken + 1
C29_Witness ==
    /\ BoundaryCall /\ CallNumber = maxAttemptsPerToken + 1
    /\ last.result = "TooManyAttempts"

\* the correct code arrives as call maxAttemptsPerToken
C29_WitnessLast ==
    /\ BoundaryCall /\ CallNumber = maxAttemptsPerToken
    /\ maxAttemptsPerToken > 1 /\ last.result = "Success"

\* the results of verifyCode that count as an attempt
Counted == { "TooManyAttempts", "IncorrectCode", "Success" }

\* C30: the attempts counter of a challenge never decreases: a verifyCode call
\* that returns TooManyAttempts, IncorrectCode or success adds exactly 1 to the
\* counter of its challenge, a call that returns InvalidOrExpired, AlreadyUsed,
\* Expired or Locked leaves it as it was, and verifyCode, create and cleanup
\* leave the counters of all other stored challenges as they were
C30_AttemptAccounting ==
    last.op # "none" =>
       \A s \in (DOMAIN tokens) \cap (DOMAIN last.preTokens) :
          tokens[s].attempts =
             last.preTokens[s].attempts
               + (IF LastVerify /\ s = last.sid /\ last.result \in Counted
                  THEN 1 ELSE 0)

\* a call is turned away with TooManyAttempts and counted
C30_Witness ==
    /\ LastVerify /\ last.result = "TooManyAttempts"
    /\ tokens[last.sid].attempts = PreRow.attempts + 1
    /\ \E s \in DOMAIN tokens : s # last.sid

\* a call on a used challenge is not counted
C30_WitnessUsed ==
    /\ LastVerify /\ last.result = "AlreadyUsed"
    /\ tokens[last.sid].attempts = PreRow.attempts /\ PreRow.attempts > 0

\* cleanup leaves a counted challenge in the store
C30_WitnessCleanup ==
    /\ LastCleanup
    /\ \E s \in DOMAIN tokens : tokens[s].attempts > 0

(* ------------------------------ failure log ------------------------------ *)

\* C31: the failure log grows by exactly one entry, for the challenge's own
\* normalized email, on every verifyCode call that returns IncorrectCode, and
\* is unchanged by every other verifyCode outcome
C31_FailureLogged ==
    LastVerify =>
       failures =
          IF last.result = "IncorrectCode"
          THEN last.preFailures
                 (+) SetToBag({[email |-> created[last.sid].email, failedAt |-> now]})
          ELSE last.preFailures

\* a wrong code on a challenge created with an address in capitals is logged
C31_Witness ==
    /\ LastVerify /\ last.result = "IncorrectCode"
    /\ created[last.sid].email = "alice@example.com"
    /\ BagCardinality(failures) = BagCardinality(last.preFailures) + 1

\* a call turned away with TooManyAttempts leaves the log alone
C31_WitnessTooMany ==
    LastVerify /\ last.result = "TooManyAttempts" /\ failures = last.preFailures

\* a challenge for which verifyCode has returned TooManyAttempts: some call
\* saw its counter above the limit
Burned(s) ==
    \E i \in DOMAIN observed[s] : observed[s][i] > maxAttemptsPerToken

\* C32: once verifyCode has returned TooManyAttempts for a challenge the
\* challenge is marked used for as long as it is stored, and no verifyCode
\* call on it succeeds, whatever code is submitted and whatever the clock and
\* the lockout window have come to
C32_BurnedForGood ==
    /\ \A s \in DOMAIN tokens : Burned(s) => tokens[s].used
    /\ \A s \in Sids : Burned(s) => succ[s] = 0
    /\ (LastVerify /\ last.result = "TooManyAttempts") =>
          Burned(last.sid) /\ tokens[last.sid].used
    /\ (LastVerify /\ Burned(last.sid) /\ last.result # "TooManyAttempts") =>
          last.result \in { "AlreadyUsed", "InvalidOrExpired" }

\* the issued code is submitted to a burned challenge after the clock has
\* moved on
C32_Witness ==
    /\ LastVerify /\ Burned(last.sid) /\ IssuedCode
    /\ now > StartNow /\ last.result = "AlreadyUsed"

\* the failures of an email inside the lockout window that ends at time end
WindowCount(email, end) ==
    LET inside == { r \in DOMAIN failures :
                      /\ r.email = email
                      /\ r.failedAt >= end - ONE_HOUR_MS /\ r.failedAt <= end }
    IN  BagCardinality([r \in inside |-> failures[r]])

\* C33: for every email the IncorrectCode results inside any one lockout
\* window never number more than OTP_LOCKOUT_THRESHOLD, however many
\* challenges are created for the email: no window that ends or begins at a
\* failure holds more failures than that
C33_GuessBound ==
    \A r \in DOMAIN failures :
       /\ WindowCount(r.email, r.failedAt) <= OTP_LOCKOUT_THRESHOLD
       /\ WindowCount(r.email, r.failedAt + ONE_HOUR_MS) <= OTP_LOCKOUT_THRESHOLD

\* an email at the threshold is locked out of a challenge no call has touched
C33_Witness ==
    /\ LastVerify /\ last.result = "Locked" /\ PreRow.attempts = 0
    /\ WindowCount(PreRow.email, now) = OTP_LOCKOUT_THRESHOLD

(* ------------------ the OTP form's code input (send-code.ts) ------------ *)

\* maxlength="6" of the code input of renderOtpForm
OtpInputMaxLength == 6

\* the repetition count of pattern="[0-9]{6}" of the same input
OtpInputPatternLength == 6

\* pattern="[0-9]{6}": the whole value is exactly that many decimal digits
matchesPattern(value) ==
    /\ Len(value) = OtpInputPatternLength
    /\ \A i \in 1 .. Len(value) : value[i] \in 0 .. 9

\* the value satisfies the constraints of the code input of the form
\* renderOtpForm renders, so the browser lets the user submit it unchanged
acceptsInput(value) ==
    /\ Len(value) <= OtpInputMaxLength
    /\ matchesPattern(value)

\* C39: every code issued by create satisfies the input constraint (maxlength
\* and digit pattern) of the OTP form, so the user can submit it unchanged.
\* The code does not do this: the codes have 8 digits, the input takes 6.
C39_IssuedCodeFitsForm ==
    \A s \in DOMAIN issued : acceptsInput(issued[s])

(* --------------------------- the send-code route ------------------------- *)

LastSendCode == mail.last.handler = "send-code"

\* C38: when the rate limiter rejects a send-code request, no challenge is
\* created and no e-mail is sent (the store is unchanged) and the response is
\* the OTP form with an empty session id; and rateLimiter.record is called
\* only after the challenge was created and the e-mail sent successfully
C38_RejectedLeavesStore ==
    LastSendCode =>
       /\ mail.last.limited =>
             /\ ~mail.last.issued
             /\ tokens = mail.last.preTokens
             /\ mail.sends = mail.last.preSends
             /\ mail.recorded = mail.last.preRecorded
             /\ mail.last.response =
                   Page(200, 0, "Too many requests. Please wait a moment.")
       /\ mail.recorded # mail.last.preRecorded =>
             /\ mail.recorded = mail.last.preRecorded + 1
             /\ mail.last.issued /\ mail.last.delivered
             /\ mail.last.sessionId \in DOMAIN tokens
             /\ mail.last.sessionId \notin DOMAIN mail.last.preTokens
             /\ mail.sends = mail.last.preSends + 1

\* a request rejected by the limiter after an earlier one issued a code
C38_Witness ==
    /\ LastSendCode /\ mail.last.limited
    /\ tokens # << >> /\ mail.recorded > 0

\* a request whose e-mail failed: the challenge exists, nothing is recorded
C38_WitnessUnsent ==
    /\ LastSendCode /\ mail.last.issued /\ ~mail.last.delivered
    /\ mail.recorded = mail.last.preRecorded

(* ---------------------------- the login route ---------------------------- *)

LastLogin == route.handler = "login"

\* the PAR request of the last login succeeded, at once or on the nonce retry
ParSucceeded ==
    \/ route.exchange.sent = 1 /\ route.exchange.first.ok
    \/ route.exchange.sent = 2 /\ route.exchange.second.ok

\* the locations the login route redirects to on an error
LoginErrors ==
    { "/?error=invalid_email", "/?error=invalid_handle", "/?error=par_failed",
      "/?error=auth_failed" }

\* C36: the login route sets the OAuth session cookie exactly when the PAR
\* request succeeded (at once or on the nonce retry) and the response is the
\* redirect to the authorization endpoint; the 429 and the redirects to
\* invalid_email, invalid_handle, par_failed and auth_failed set no cookie
C36_CookieIffRedirect ==
    LastLogin =>
       /\ route.cookie # NoCookie
              <=> (ParSucceeded /\ route.response = Redirect("authUrl"))
       /\ route.cookie # NoCookie =>
              /\ jar.cookies[OAUTH_COOKIE] = route.cookie
              /\ decode(route.cookie, SESSION_SECRET) # NullSession
       /\ (route.response.status = 429 \/ route.response.location \in LoginErrors) =>
              /\ route.cookie = NoCookie
              /\ jar.cookies = route.preCookies

\* the cookie set on the redirect that follows the nonce retry
C36_Witness ==
    /\ LastLogin /\ route.exchange.sent = 2 /\ route.cookie # NoCookie

\* a failed retry: two PAR requests, par_failed, no cookie
C36_WitnessFailed ==
    /\ LastLogin /\ route.exchange.sent = 2
    /\ route.response = Redirect("/?error=par_failed")

\* a rate-limited login
C36_WitnessDenied == LastLogin /\ route.response.status = 429

(* ------------------------ the flows on the wire -------------------------- *)

\* the route that has just run sent requests
Sent == wire.last.handler # "none" /\ wire.last.requests # << >>

FirstRequest == wire.last.requests[1]

RetryRequest == wire.last.requests[2]

\* C34: the first request of a DPoP-protected exchange carries a proof with
\* no nonce, and the retry carries a newly built proof (not the first one
\* sent again) whose nonce is the dpop-nonce value of the first response,
\* signed with the same DPoP key pair, for the same method and URL, with the
\* same body
C34_NonceRetry ==
    Sent =>
       /\ "nonce" \notin DOMAIN decodePart(FirstRequest.dpop, 2)
       /\ Len(wire.last.requests) = 2 =>
             /\ wire.last.nonce \in NonceValues
             /\ ~wire.last.exchange.first.ok /\ wire.last.exchange.first.nonce
             /\ RetryRequest.dpop # FirstRequest.dpop
             /\ "nonce" \in DOMAIN decodePart(RetryRequest.dpop, 2)
             /\ decodePart(RetryRequest.dpop, 2).nonce = wire.last.nonce
             /\ decodePart(RetryRequest.dpop, 1).jwk = decodePart(FirstRequest.dpop, 1).jwk
             /\ verifyEs256(FirstRequest.dpop, decodePart(FirstRequest.dpop, 1).jwk)
             /\ verifyEs256(RetryRequest.dpop, decodePart(FirstRequest.dpop, 1).jwk)
             /\ decodePart(RetryRequest.dpop, 2).htm = decodePart(FirstRequest.dpop, 2).htm
             /\ decodePart(RetryRequest.dpop, 2).htu = decodePart(FirstRequest.dpop, 2).htu
             /\ RetryRequest.method = FirstRequest.method
             /\ RetryRequest.url = FirstRequest.url
             /\ RetryRequest.body = FirstRequest.body

\* a PAR retry, and a token retry whose two proofs drew the same jti
C34_Witness ==
    /\ wire.last.handler = "login" /\ Len(wire.last.requests) = 2
    /\ wire.last.nonce = "nonce-b"

C34_WitnessToken ==
    /\ wire.last.handler = "callback" /\ Len(wire.last.requests) = 2
    /\ decodePart(RetryRequest.dpop, 2).jti = decodePart(FirstRequest.dpop, 2).jti

\* the flows whose PAR request carried the state of the last callback
FlowsOfCallback ==
    { f \in DOMAIN wire.par : wire.par[f].body.state = wire.last.state }

\* the request uses the verifier and the key pair of flow f
UsesFlow(r, f) ==
    /\ generateCodeChallenge(r.body.code_verifier) = wire.par[f].body.code_challenge
    /\ decodePart(r.dpop, 1).jwk = wire.par[f].jwk
    /\ verifyEs256(r.dpop, wire.par[f].jwk)

\* C35: the code_verifier the callback sends to the token endpoint is the
\* verifier whose SHA-256 challenge was the code_challenge of that flow's PAR
\* request, and the key that signs the token proof is the key pair generated
\* at login, restored from the cookie; material of another flow is never used
C35_FlowBinding ==
    (Sent /\ wire.last.handler = "callback") =>
       /\ Cardinality(FlowsOfCallback) = 1
       /\ \A i \in DOMAIN wire.last.requests :
             /\ \A f \in FlowsOfCallback : UsesFlow(wire.last.requests[i], f)
             /\ \A g \in (DOMAIN wire.par) \ FlowsOfCallback :
                   /\ generateCodeChallenge(wire.last.requests[i].body.code_verifier)
                         # wire.par[g].body.code_challenge
                   /\ decodePart(wire.last.requests[i].dpop, 1).jwk # wire.par[g].jwk
                   /\ ~verifyEs256(wire.last.requests[i].dpop, wire.par[g].jwk)

\* the callback of the second of two flows gets its token
C35_Witness ==
    /\ Sent /\ wire.last.handler = "callback" /\ wire.flows = 2
    /\ wire.last.state = generateState(2)
    /\ wire.last.response = Redirect("/welcome")

\* the callback of the first flow, the second one having failed at PAR
C35_WitnessFirst ==
    /\ Sent /\ wire.last.handler = "callback" /\ wire.flows = 2
    /\ wire.last.state = generateState(1)

(* -------------------------- the verify-code route ------------------------ *)

LastPost == page.handler = "verify-code"

\* C37: the verify-code route signs a callback redirect only when verifyCode
\* returned a verified identity; the request_uri and the email it signs are
\* the authRequestId and the email stored in the challenge, not the form's
\* fields; when verifyCode returned an error no callback is signed and the
\* OTP form is rendered again
C37_SignsVerifiedIdentity ==
    LastPost =>
       /\ page.response.callback # NoCallback =>
             /\ page.called /\ page.result = "Success"
             /\ page.form.session_id \in DOMAIN created
             /\ succ[page.form.session_id] = 1
             /\ page.response.kind = "magic-callback"
             /\ page.response.callback.params.request_uri
                   = created[page.form.session_id].authRequestId
             /\ page.response.callback.params.email
                   = created[page.form.session_id].email
             /\ verifyCallback(page.response.callback.params,
                               page.response.callback.ts,
                               page.response.callback.sig,
                               magicCallbackSecret, page.response.callback.ts)
       /\ (page.called /\ page.result # "Success") =>
             /\ page.response.callback = NoCallback
             /\ page.response.kind = "otp-form"
             /\ page.response.error = page.result
       /\ ~page.called => page.response.callback = NoCallback

\* a callback signed for a form whose hidden fields name another request and
\* another address than the challenge
C37_Witness ==
    /\ LastPost /\ page.response.callback # NoCallback
    /\ page.form.request_uri # page.response.callback.params.request_uri
    /\ page.form.email # page.response.callback.params.email

\* a wrong code: the form again, nothing signed
C37_WitnessError ==
    /\ LastPost /\ page.result = "IncorrectCode"
    /\ page.response.kind = "otp-form"

====
